---------------------------- MODULE Spec2Model ----------------------------
(***************************************************************************)
(* MyBIRME: the image collection store (AppContext reducer and callbacks), *)
(* the smart-crop analysis pipeline (analyzeImage, its cache, batchAnalyze)*)
(* and the crop geometry they use (cropMath).                              *)
(*                                                                         *)
(* Numbers that are fractions in the program (centerX, centerY, scale,     *)
(* aspect) are exact rationals <<n, d>> in lowest terms with d > 0.        *)
(***************************************************************************)
EXTENDS Integers, Sequences, FiniteSets, TLC

VARIABLES
    images,           \* AppState.images
    settings,         \* AppState.settings (enableSmartCrop, exportSettings.targetWidth/Height)
    selectedImageId,  \* AppState.selectedImageId (0 is null)
    editingImageId,   \* AppState.editingImageId (0 is null)
    cropCache,        \* smartCropWorker.cropCache: cache key -> result
    storedCrops,      \* localStorage[CROPS_KEY]: fingerprint -> framing
    nextId,           \* number of identities generateImageId has handed out
    addCall,          \* the addImages call that is awaiting its files, if any
    jobs,             \* runSmartCropForImage calls: waiting for their timer or for the detector
    recompute,        \* the recomputeSmartCrop call in progress, if any
    batch,            \* the batchAnalyze call in progress, if any (finished: history)
    exportChange,     \* history: what the last updateExportSettings call found
    observed,         \* history: what the step just taken found, if clearImages or applyCropToAll
    crop,             \* a call of a cropMath function on its own: its arguments and results
    exporting,        \* the handleExport call in progress or ended: what it saved and reported
    userFramings      \* history: identity -> the framing updateCropState last committed for it

vars == <<images, settings, selectedImageId, editingImageId, cropCache,
          storedCrops, nextId, addCall, jobs, recompute, batch, exportChange,
          observed, crop, exporting, userFramings>>

-----------------------------------------------------------------------------
(* Bounds of the model *)

MaxImages == 2

MaxBatchJobs == 3

MaxConcurrency == 2

-----------------------------------------------------------------------------
(* Exact rational arithmetic *)

RECURSIVE GCD(_, _)
GCD(a, b) == IF b = 0 THEN a ELSE GCD(b, a % b)

Abs(n) == IF n < 0 THEN -n ELSE n

Rat(n, d) ==
    LET g == GCD(Abs(n), Abs(d))
        s == IF d < 0 THEN -1 ELSE 1
    IN  <<(s * n) \div g, (s * d) \div g>>

RInt(n) == <<n, 1>>

RAdd(a, b) == Rat(a[1] * b[2] + b[1] * a[2], a[2] * b[2])

RSub(a, b) == Rat(a[1] * b[2] - b[1] * a[2], a[2] * b[2])

RMul(a, b) == Rat(a[1] * b[1], a[2] * b[2])

RDiv(a, b) == Rat(a[1] * b[2], a[2] * b[1])

RLe(a, b) == a[1] * b[2] <= b[1] * a[2]

RLt(a, b) == a[1] * b[2] < b[1] * a[2]

RMin(a, b) == IF RLe(a, b) THEN a ELSE b

RMax(a, b) == IF RLe(a, b) THEN b ELSE a

-----------------------------------------------------------------------------
(* Values *)

NoResult == [x |-> 0, y |-> 0, width |-> 0, height |-> 0, score |-> 0]

DEFAULT_CROP_STATE ==
    [centerX |-> Rat(1, 2), centerY |-> Rat(1, 2), scale |-> RInt(1), aspect |-> RInt(1),
     sourceHash |-> ""]

DEFAULT_APP_SETTINGS ==
    [enableSmartCrop |-> TRUE, targetWidth |-> 1200, targetHeight |-> 800,
     aspectLocked |-> TRUE]

\* The files a user can drop: content decides the fingerprint and the
\* natural size; the third file does not load (img.onerror), the fourth
\* loads with a natural width of zero, the fifth is not of an image type
\* the program takes.
Files ==
    { [hash |-> "h1", type |-> "image/jpeg", width |-> 1200, height |-> 800,
       decodes |-> TRUE],
      [hash |-> "h2", type |-> "image/png", width |-> 600, height |-> 900,
       decodes |-> TRUE],
      [hash |-> "h3", type |-> "image/jpeg", width |-> 0, height |-> 0,
       decodes |-> FALSE],
      [hash |-> "h4", type |-> "image/gif", width |-> 0, height |-> 600,
       decodes |-> TRUE],
      [hash |-> "h5", type |-> "image/svg+xml", width |-> 300, height |-> 300,
       decodes |-> TRUE] }

GoodFile(hash) == CHOOSE f \in Files : f.hash = hash

\* The lists of files handed to addImages.
FileLists ==
    { <<GoodFile("h1")>>, <<GoodFile("h2")>>, <<GoodFile("h3")>>,
      <<GoodFile("h3"), GoodFile("h1")>> }

\* The values the width and the height field are set to.
TargetWidths == {800, 1200}

TargetHeights == {800}

\* The detector's answer for an image of the given size and target size,
\* when it answers: a region of the target's orientation inside the image.
DetectorRect(w, h, targetWidth, targetHeight) ==
    IF targetWidth > targetHeight
    THEN [x |-> w \div 4, y |-> h \div 4, width |-> w \div 2, height |-> h \div 4, score |-> 1]
    ELSE [x |-> 0, y |-> h \div 2, width |-> w \div 4, height |-> h \div 4, score |-> 2]

RECURSIVE SeqsUpTo(_, _)
SeqsUpTo(S, n) ==
    IF n = 0 THEN {<<>>}
    ELSE LET shorter == SeqsUpTo(S, n - 1)
         IN  shorter \cup {Append(s, x) : s \in {t \in shorter : Len(t) = n - 1}, x \in S}

ImageIds(imgs) == {imgs[i].id : i \in 1..Len(imgs)}

ImageById(imgs, id) == imgs[CHOOSE i \in 1..Len(imgs) : imgs[i].id = id]

-----------------------------------------------------------------------------
(* imageUtils.ts: the test and the load of a file *)

isValidImageFile(file) ==
    file.type \in {"image/jpeg", "image/png", "image/webp", "image/gif", "image/bmp"}

\* createImageBitmap as it would be if it resolved for every loaded image.
createImageBitmapAnySize(file) == TRUE

\* Whether createImageBitmap(img) resolves (lines 37-39): the platform
\* rejects an image whose natural width or height is zero with an
\* InvalidStateError, in the first call and in the fallback call alike; the
\* bitmap it resolves with has the natural size.
createImageBitmap(file) == file.width > 0 /\ file.height > 0

\* Whether loadImageWithOrientation(file) resolves: the img element loads
\* and createImageBitmap resolves.
loadImageWithOrientation(file) == file.decodes /\ createImageBitmap(file)

-----------------------------------------------------------------------------
(* cropMath.ts *)

\* The base as it would be with the two branches exchanged.
BaseSizeCovering(imageWidth, imageHeight, aspect) ==
    IF RLe(Rat(imageWidth, imageHeight), aspect)
    THEN [w |-> RMul(RInt(imageHeight), aspect), h |-> RInt(imageHeight)]
    ELSE [w |-> RInt(imageWidth), h |-> RDiv(RInt(imageWidth), aspect)]

BaseSize(imageWidth, imageHeight, aspect) ==
    IF RLe(Rat(imageWidth, imageHeight), aspect)
    THEN [w |-> RInt(imageWidth), h |-> RDiv(RInt(imageWidth), aspect)]
    ELSE [w |-> RMul(RInt(imageHeight), aspect), h |-> RInt(imageHeight)]

\* calculateCrop as it would be without the two "Clamp to image bounds" lines.
calculateCropUnclamped(imageWidth, imageHeight, cropState) ==
    LET base       == BaseSize(imageWidth, imageHeight, cropState.aspect)
        cropWidth  == RDiv(base.w, cropState.scale)
        cropHeight == RDiv(base.h, cropState.scale)
    IN  [baseWidth |-> base.w, baseHeight |-> base.h,
         cropWidth |-> cropWidth, cropHeight |-> cropHeight,
         cropX |-> RSub(RMul(cropState.centerX, RInt(imageWidth)),
                        RDiv(cropWidth, RInt(2))),
         cropY |-> RSub(RMul(cropState.centerY, RInt(imageHeight)),
                        RDiv(cropHeight, RInt(2)))]

calculateCrop(imageWidth, imageHeight, cropState) ==
    LET base       == BaseSize(imageWidth, imageHeight, cropState.aspect)
        cropWidth  == RDiv(base.w, cropState.scale)
        cropHeight == RDiv(base.h, cropState.scale)
        cropX      == RSub(RMul(cropState.centerX, RInt(imageWidth)),
                           RDiv(cropWidth, RInt(2)))
        cropY      == RSub(RMul(cropState.centerY, RInt(imageHeight)),
                           RDiv(cropHeight, RInt(2)))
    IN  [baseWidth |-> base.w, baseHeight |-> base.h,
         cropWidth |-> cropWidth, cropHeight |-> cropHeight,
         cropX |-> RMax(RInt(0), RMin(RSub(RInt(imageWidth), cropWidth), cropX)),
         cropY |-> RMax(RInt(0), RMin(RSub(RInt(imageHeight), cropHeight), cropY))]

\* Math.round: the nearest integer, a half going up.
MathRound(a) == (2 * a[1] + a[2]) \div (2 * a[2])

getCropRect(imageWidth, imageHeight, cropState) ==
    LET calc == calculateCrop(imageWidth, imageHeight, cropState)
    IN  [x |-> MathRound(calc.cropX), y |-> MathRound(calc.cropY),
         width |-> MathRound(calc.cropWidth), height |-> MathRound(calc.cropHeight)]

\* clampCropCenter as it would be if it moved the center half of the way.
clampCropCenterHalfWay(centerX, centerY, cropWidth, cropHeight, imageWidth, imageHeight) ==
    LET minCenterX == RDiv(RDiv(cropWidth, RInt(2)), RInt(imageWidth))
        maxCenterX == RSub(RInt(1), minCenterX)
        minCenterY == RDiv(RDiv(cropHeight, RInt(2)), RInt(imageHeight))
        maxCenterY == RSub(RInt(1), minCenterY)
    IN  [centerX |-> RDiv(RAdd(centerX, RMax(minCenterX, RMin(maxCenterX, centerX))),
                          RInt(2)),
         centerY |-> RDiv(RAdd(centerY, RMax(minCenterY, RMin(maxCenterY, centerY))),
                          RInt(2))]

clampCropCenter(centerX, centerY, cropWidth, cropHeight, imageWidth, imageHeight) ==
    LET minCenterX == RDiv(RDiv(cropWidth, RInt(2)), RInt(imageWidth))
        maxCenterX == RSub(RInt(1), minCenterX)
        minCenterY == RDiv(RDiv(cropHeight, RInt(2)), RInt(imageHeight))
        maxCenterY == RSub(RInt(1), minCenterY)
    IN  [centerX |-> RMax(minCenterX, RMin(maxCenterX, centerX)),
         centerY |-> RMax(minCenterY, RMin(maxCenterY, centerY))]

\* getMaxScale as it would be with the 10x cap alone.
getMaxScaleCapOnly(imageWidth, imageHeight, aspect) == RInt(10)

getMaxScale(imageWidth, imageHeight, aspect) ==
    LET base      == BaseSize(imageWidth, imageHeight, aspect)
        maxScaleX == RDiv(base.w, RInt(50))
        maxScaleY == RDiv(base.h, RInt(50))
    IN  RMin(RMin(maxScaleX, maxScaleY), RInt(10))

\* smartCropToCropState as it would be with the manual zoom's cap of 10.
smartCropToCropStateCap10(smartCrop, imageWidth, imageHeight, targetAspect) ==
    LET base  == BaseSize(imageWidth, imageHeight, targetAspect)
        scale == RMin(RDiv(base.w, RInt(smartCrop.width)),
                      RDiv(base.h, RInt(smartCrop.height)))
    IN  [centerX |-> RDiv(RAdd(RInt(smartCrop.x), Rat(smartCrop.width, 2)), RInt(imageWidth)),
         centerY |-> RDiv(RAdd(RInt(smartCrop.y), Rat(smartCrop.height, 2)), RInt(imageHeight)),
         scale |-> RMax(RInt(1), RMin(scale, RInt(10))), aspect |-> targetAspect,
         sourceHash |-> ""]

\* smartCropToCropState as it would be with the larger of the two scales.
smartCropToCropStateLargerScale(smartCrop, imageWidth, imageHeight, targetAspect) ==
    LET base  == BaseSize(imageWidth, imageHeight, targetAspect)
        scale == RMax(RDiv(base.w, RInt(smartCrop.width)),
                      RDiv(base.h, RInt(smartCrop.height)))
    IN  [centerX |-> RDiv(RAdd(RInt(smartCrop.x), Rat(smartCrop.width, 2)), RInt(imageWidth)),
         centerY |-> RDiv(RAdd(RInt(smartCrop.y), Rat(smartCrop.height, 2)), RInt(imageHeight)),
         scale |-> RMax(RInt(1), RMin(scale, RInt(5))), aspect |-> targetAspect,
         sourceHash |-> ""]

smartCropToCropState(smartCrop, imageWidth, imageHeight, targetAspect) ==
    LET centerX == RDiv(RAdd(RInt(smartCrop.x), Rat(smartCrop.width, 2)), RInt(imageWidth))
        centerY == RDiv(RAdd(RInt(smartCrop.y), Rat(smartCrop.height, 2)), RInt(imageHeight))
        base    == BaseSize(imageWidth, imageHeight, targetAspect)
        scaleX  == RDiv(base.w, RInt(smartCrop.width))
        scaleY  == RDiv(base.h, RInt(smartCrop.height))
        scale   == RMax(RInt(1), RMin(RMin(scaleX, scaleY), RInt(5)))
    IN  [centerX |-> centerX, centerY |-> centerY, scale |-> scale, aspect |-> targetAspect,
         sourceHash |-> ""]

-----------------------------------------------------------------------------
(* appReducer, one operator per case, on the part of AppState it rewrites *)

ReduceAddImages(imgs, payload) == imgs \o payload

ReduceRemoveImage(imgs, id) == SelectSeq(imgs, LAMBDA img : img.id # id)

ReduceClearImages(imgs) == <<>>

ReduceUpdateCropState(imgs, id, cropState) ==
    [i \in 1..Len(imgs) |->
        IF imgs[i].id = id THEN [imgs[i] EXCEPT !.cropState = cropState] ELSE imgs[i]]

\* UPDATE_ALL_CROP_STATES as it would be if it also reset the zoom to fit.
ReduceUpdateAllCropStatesRefit(imgs, aspect) ==
    [i \in 1..Len(imgs) |->
        [imgs[i] EXCEPT !.cropState.aspect = aspect, !.cropState.scale = RInt(1)]]

ReduceUpdateAllCropStates(imgs, aspect) ==
    [i \in 1..Len(imgs) |-> [imgs[i] EXCEPT !.cropState.aspect = aspect]]

\* APPLY_CROP_TO_ALL as it would be if it spread the payload only.
ReduceApplyCropToAllPayloadOnly(imgs, payload, exportSettings) ==
    [i \in 1..Len(imgs) |-> [imgs[i] EXCEPT !.cropState = payload]]

ReduceApplyCropToAll(imgs, payload, exportSettings) ==
    [i \in 1..Len(imgs) |->
        [imgs[i] EXCEPT !.cropState =
            [payload EXCEPT !.aspect =
                Rat(exportSettings.targetWidth, exportSettings.targetHeight)]]]

\* SET_IMAGE_SMART_CROP as it would be if it inserted an entry it does not find.
ReduceSetImageSmartCropUpsert(imgs, id, result) ==
    IF id \in ImageIds(imgs)
    THEN [i \in 1..Len(imgs) |->
            IF imgs[i].id = id
            THEN [imgs[i] EXCEPT !.smartCropResult = result, !.isSmartCropPending = FALSE]
            ELSE imgs[i]]
    ELSE Append(imgs, [id |-> id, originalWidth |-> 0, originalHeight |-> 0,
                       cropState |-> DEFAULT_CROP_STATE, smartCropResult |-> result,
                       isProcessing |-> FALSE, isSmartCropPending |-> FALSE])

ReduceSetImageSmartCrop(imgs, id, result) ==
    [i \in 1..Len(imgs) |->
        IF imgs[i].id = id
        THEN [imgs[i] EXCEPT !.smartCropResult = result, !.isSmartCropPending = FALSE]
        ELSE imgs[i]]

ReduceSetImageSmartCropPending(imgs, id, pending) ==
    [i \in 1..Len(imgs) |->
        IF imgs[i].id = id THEN [imgs[i] EXCEPT !.isSmartCropPending = pending] ELSE imgs[i]]

\* SET_IMAGE_PROCESSING as it would be without the test of img.id.
ReduceSetImageProcessingEvery(imgs, id, isProcessing) ==
    [i \in 1..Len(imgs) |-> [imgs[i] EXCEPT !.isProcessing = isProcessing]]

ReduceSetImageProcessing(imgs, id, isProcessing) ==
    [i \in 1..Len(imgs) |->
        IF imgs[i].id = id THEN [imgs[i] EXCEPT !.isProcessing = isProcessing] ELSE imgs[i]]

\* REMOVE_IMAGE spreads ...state: both pointers are kept as they are.
ReduceRemoveImagePointer(pointer, id) == pointer

\* CLEAR_IMAGES sets both pointers to null.
ReduceClearImagesPointerKept(pointer) == pointer

ReduceClearImagesPointer(pointer) == 0

-----------------------------------------------------------------------------
(* smartCropWorker.ts: the cache and analyzeImage *)

\* generateImageId: the text of the n-th identity, as its characters after
\* the common "img_<ms>_" of identities made in one millisecond. The random
\* part is cut to at most nine characters and not padded, so one identity
\* can be the beginning of another: the first is the beginning of the second.
generateImageId(n) == IF n = 2 THEN <<"r1", "r2">> ELSE <<"r" \o ToString(n)>>

\* String.prototype.startsWith on sequences of characters.
startsWith(text, prefix) ==
    /\ Len(prefix) <= Len(text)
    /\ SubSeq(text, 1, Len(prefix)) = prefix

\* `${imageId}_${targetWidth}_${targetHeight}` (identities are numbered in
\* the store; the key holds the identity's text).
getCacheKey(imageId, targetWidth, targetHeight) ==
    generateImageId(imageId) \o <<"_", ToString(targetWidth), "_", ToString(targetHeight)>>

\* An absent imageId is 0.
clearSmartCropCache(cache, imageId) ==
    IF imageId # 0
    THEN [k \in {key \in DOMAIN cache : ~startsWith(key, generateImageId(imageId))}
             |-> cache[k]]
    ELSE [k \in {} |-> NoResult]

EmptyCache == [k \in {} |-> NoResult]

\* What a detector call ends with: a rectangle, or a rejection.
Outcomes(w, h, targetWidth, targetHeight) ==
    { [ok |-> TRUE, rect |-> DetectorRect(w, h, targetWidth, targetHeight)],
      [ok |-> FALSE, rect |-> NoResult] }

\* analyzeImage as it would be without its catch: a rejection is rethrown.
analyzeImageSettleNoCatch(cache, key, outcome) ==
    IF outcome.ok
    THEN [cache  |-> [k \in DOMAIN cache \cup {key} |->
                         IF k = key THEN outcome.rect ELSE cache[k]],
          ret    |-> outcome.rect,
          thrown |-> FALSE]
    ELSE [cache |-> cache, ret |-> NoResult, thrown |-> TRUE]

\* analyzeImage as it would be if its catch stored the null it returns.
analyzeImageSettleStoresNull(cache, key, outcome) ==
    [cache  |-> [k \in DOMAIN cache \cup {key} |->
                    IF k = key THEN outcome.rect ELSE cache[k]],
     ret    |-> outcome.rect,
     thrown |-> FALSE]

\* analyzeImage after the detector call has ended (lines 65-87): a result is
\* cached and returned; a rejection is caught and null is returned.
analyzeImageSettle(cache, key, outcome) ==
    IF outcome.ok
    THEN [cache  |-> [k \in DOMAIN cache \cup {key} |->
                         IF k = key THEN outcome.rect ELSE cache[k]],
          ret    |-> outcome.rect,
          thrown |-> FALSE]
    ELSE [cache |-> cache, ret |-> NoResult, thrown |-> FALSE]

-----------------------------------------------------------------------------
(* AppProvider: effects and runSmartCropForImage *)

\* The effect on [state.images]: the framings of the current images, keyed by
\* fingerprint, replace the stored map unless there are none.
SaveCropStatesEffect(imgs, stored) ==
    LET withHash == {i \in 1..Len(imgs) : imgs[i].cropState.sourceHash # ""}
        hashes   == {imgs[i].cropState.sourceHash : i \in withHash}
        lastOf(h) == CHOOSE i \in withHash :
                        /\ imgs[i].cropState.sourceHash = h
                        /\ \A j \in withHash : imgs[j].cropState.sourceHash = h => j <= i
    IN  IF hashes = {} THEN stored
        ELSE [h \in hashes |-> imgs[lastOf(h)].cropState]

SnapshotOf(img) ==
    [originalWidth |-> img.originalWidth, originalHeight |-> img.originalHeight,
     sourceHash |-> img.cropState.sourceHash]

\* The commit as it would be if only SET_IMAGE_SMART_CROP were dispatched.
CommitSmartCropResultOnly(imgs, id, result, image, targetWidth, targetHeight) ==
    ReduceSetImageSmartCrop(imgs, id, result)

\* Lines 205-218: the result and the framing derived from it are dispatched.
CommitSmartCrop(imgs, id, result, image, targetWidth, targetHeight) ==
    LET newCropState ==
            [smartCropToCropState(result, image.originalWidth, image.originalHeight,
                                  Rat(targetWidth, targetHeight))
                EXCEPT !.sourceHash = image.sourceHash]
    IN  ReduceUpdateCropState(ReduceSetImageSmartCrop(imgs, id, result), id, newCropState)

\* runSmartCropForImage once analyzeImage has returned or thrown (lines 205-222).
runSmartCropSettle(imgs, id, image, targetWidth, targetHeight, analysis) ==
    IF analysis.thrown
    THEN ReduceSetImageSmartCropPending(imgs, id, FALSE)
    ELSE IF analysis.ret # NoResult
         THEN CommitSmartCrop(imgs, id, analysis.ret, image, targetWidth, targetHeight)
         ELSE imgs

\* runSmartCropForImage up to the detector call (lines 196-203, 42-47): the
\* entry is marked pending; a cached result is committed at once.
runSmartCropStart(imgs, cache, id, image, targetWidth, targetHeight) ==
    LET key     == getCacheKey(id, targetWidth, targetHeight)
        pending == ReduceSetImageSmartCropPending(imgs, id, TRUE)
    IN  IF key \in DOMAIN cache
        THEN [images |-> runSmartCropSettle(pending, id, image, targetWidth, targetHeight,
                                            [ret |-> cache[key], thrown |-> FALSE]),
              hit |-> TRUE]
        ELSE [images |-> pending, hit |-> FALSE]

-----------------------------------------------------------------------------
(* The state after construction *)

NoAddCall ==
    [active |-> FALSE, files |-> <<>>, savedCrops |-> <<>>,
     enableSmartCrop |-> FALSE, targetWidth |-> 0, targetHeight |-> 0]

NoRecompute == [active |-> FALSE, queue |-> <<>>, targetWidth |-> 0, targetHeight |-> 0]

NoBatch ==
    [pc |-> "idle", jobs |-> <<>>, concurrency |-> 0, i |-> 0, status |-> <<>>,
     completed |-> 0, results |-> <<>>, progress |-> <<>>, finished |-> <<>>]

\* No clearImages or applyCropToAll call was the last step.
NoObservation ==
    [op |-> "none", selected |-> FALSE, editing |-> FALSE, cached |-> FALSE,
     payload |-> DEFAULT_CROP_STATE]

\* No calculateCrop call.
NoCrop ==
    [pc |-> "none", imageWidth |-> 0, imageHeight |-> 0, cropState |-> DEFAULT_CROP_STATE,
     calc |-> [baseWidth |-> RInt(0), baseHeight |-> RInt(0), cropWidth |-> RInt(0),
               cropHeight |-> RInt(0), cropX |-> RInt(0), cropY |-> RInt(0)],
     rect |-> [x |-> 0, y |-> 0, width |-> 0, height |-> 0]]

\* The naming fields of exportSettings at their defaults.
DEFAULT_NAMING == [prefix |-> "image-", suffix |-> "", startIndex |-> 1, format |-> "jpeg"]

\* No handleExport call yet.
NoExport ==
    [pc |-> "idle", images |-> <<>>, naming |-> DEFAULT_NAMING, i |-> 0, zip |-> <<>>,
     saved |-> <<>>, progress |-> <<>>, toast |-> "", failed |-> {}]

NoExportChange == [ran |-> FALSE, enabled |-> FALSE, cached |-> FALSE, analysed |-> FALSE]

Init ==
    /\ images = <<>>
    /\ settings = DEFAULT_APP_SETTINGS
    /\ selectedImageId = 0
    /\ editingImageId = 0
    /\ cropCache = EmptyCache
    /\ storedCrops = <<>>
    /\ nextId = 0
    /\ addCall = NoAddCall
    /\ jobs = {}
    /\ recompute = NoRecompute
    /\ batch = NoBatch
    /\ exportChange = NoExportChange
    /\ observed = NoObservation
    /\ exporting = NoExport
    /\ userFramings = <<>>
    /\ crop = NoCrop

-----------------------------------------------------------------------------
(* addImages (lines 225-279) *)

\* The call up to its first await: the files are filtered by type, the
\* closure's settings and the stored framings are read.
AddImagesBegin(files) ==
    /\ ~addCall.active
    /\ nextId + Len(files) <= MaxImages
    /\ addCall' = [active |-> TRUE, files |-> SelectSeq(files, isValidImageFile),
                   savedCrops |-> storedCrops,
                   enableSmartCrop |-> settings.enableSmartCrop,
                   targetWidth |-> settings.targetWidth,
                   targetHeight |-> settings.targetHeight]
    /\ UNCHANGED <<images, settings, selectedImageId, editingImageId, cropCache,
                   storedCrops, nextId, jobs, recompute, batch,
                   exportChange, crop, exporting, userFramings>>
    /\ observed' = NoObservation

\* The entry built for the k-th file (lines 236-261).
NewImage(call, k, firstId) ==
    LET file      == call.files[k]
        hasSaved  == file.hash \in DOMAIN call.savedCrops
        cropState == IF hasSaved
                     THEN [call.savedCrops[file.hash] EXCEPT !.sourceHash = file.hash]
                     ELSE [DEFAULT_CROP_STATE EXCEPT
                             !.aspect = Rat(call.targetWidth, call.targetHeight),
                             !.sourceHash = file.hash]
    IN  [id |-> firstId + k,
         originalWidth |-> file.width,
         originalHeight |-> file.height,
         cropState |-> cropState,
         smartCropResult |-> NoResult,
         isProcessing |-> FALSE,
         isSmartCropPending |-> call.enableSmartCrop /\ ~hasSaved]

\* The entries as they would be if the first file that fails ended the loop.
RECURSIVE NewImagesUntilFailure(_, _, _)
NewImagesUntilFailure(call, k, firstId) ==
    IF k > Len(call.files) \/ ~loadImageWithOrientation(call.files[k]) THEN <<>>
    ELSE <<NewImage(call, k, firstId)>> \o NewImagesUntilFailure(call, k + 1, firstId)

RECURSIVE NewImages(_, _, _)
NewImages(call, k, firstId) ==
    IF k > Len(call.files) THEN <<>>
    ELSE IF loadImageWithOrientation(call.files[k])
         THEN <<NewImage(call, k, firstId)>> \o NewImages(call, k + 1, firstId)
         ELSE NewImages(call, k + 1, firstId)

\* The timers set at lines 271-278.
ScheduledJobs(call, newImages) ==
    IF call.enableSmartCrop
    THEN { [id |-> newImages[i].id, origin |-> "add", pc |-> "timer",
            targetWidth |-> call.targetWidth, targetHeight |-> call.targetHeight,
            image |-> SnapshotOf(newImages[i])]
           : i \in {n \in 1..Len(newImages) : newImages[n].isSmartCropPending} }
    ELSE {}

\* The call once its files are loaded: ADD_IMAGES is dispatched and the
\* analysis timers are set.
AddImagesCommit ==
    /\ addCall.active
    /\ LET newImages == NewImages(addCall, 1, nextId)
       IN  /\ images' = ReduceAddImages(images, newImages)
           /\ jobs' = jobs \cup ScheduledJobs(addCall, newImages)
           /\ storedCrops' = SaveCropStatesEffect(images', storedCrops)
    /\ nextId' = nextId + Len(addCall.files)
    /\ addCall' = NoAddCall
    /\ UNCHANGED <<settings, selectedImageId, editingImageId, cropCache, recompute, batch,
                   exportChange, crop, exporting, userFramings>>
    /\ observed' = NoObservation

-----------------------------------------------------------------------------
(* The other callbacks of the store *)

RemoveImage(id) ==
    /\ id \in ImageIds(images)
    /\ images' = ReduceRemoveImage(images, id)
    /\ selectedImageId' = ReduceRemoveImagePointer(selectedImageId, id)
    /\ editingImageId' = ReduceRemoveImagePointer(editingImageId, id)
    /\ cropCache' = clearSmartCropCache(cropCache, id)
    /\ storedCrops' = SaveCropStatesEffect(images', storedCrops)
    /\ userFramings' = [i \in DOMAIN userFramings \ {id} |-> userFramings[i]]
    /\ UNCHANGED <<settings, nextId, addCall, jobs, recompute, batch,
                   exportChange, crop, exporting>>
    /\ observed' = NoObservation

\* clearImages, behind handleClearWorkspace's guard.
ClearImages ==
    /\ Len(images) > 0
    /\ images' = ReduceClearImages(images)
    /\ selectedImageId' = ReduceClearImagesPointer(selectedImageId)
    /\ editingImageId' = ReduceClearImagesPointer(editingImageId)
    /\ cropCache' = clearSmartCropCache(cropCache, 0)
    /\ storedCrops' = <<>>
    /\ observed' = [op       |-> "clearImages",
                    selected |-> selectedImageId # 0,
                    editing  |-> editingImageId # 0,
                    cached   |-> cropCache # EmptyCache,
                    payload  |-> DEFAULT_CROP_STATE]
    /\ userFramings' = <<>>
    /\ UNCHANGED <<settings, nextId, addCall, jobs, recompute, batch,
                   exportChange, crop, exporting>>

\* useCropState: the framing the editor shows, with the zoom asked for.
updateScale(cropState, imageWidth, imageHeight, scale) ==
    LET maxScale == getMaxScale(imageWidth, imageHeight, cropState.aspect)
    IN  [cropState EXCEPT !.scale = RMax(RInt(1), RMin(maxScale, scale))]

\* useCropState: the framing the editor shows, with the center asked for.
updateCenter(cropState, imageWidth, imageHeight, centerX, centerY) ==
    LET calculation == calculateCrop(imageWidth, imageHeight, cropState)
        clamped     == clampCropCenter(centerX, centerY, calculation.cropWidth,
                                       calculation.cropHeight, imageWidth, imageHeight)
    IN  [cropState EXCEPT !.centerX = clamped.centerX, !.centerY = clamped.centerY]

\* The zooms asked for in the editor: the wheel turned to the top.
ZoomRequests == {RInt(10)}

\* The framings the editor can hand back for an entry (handleApply): the
\* entry's framing after one zoom, after center() or after reset().
EditedFramings(img) ==
    LET cropState == img.cropState
    IN  { updateScale(cropState, img.originalWidth, img.originalHeight, scale)
          : scale \in ZoomRequests }
        \cup { [cropState EXCEPT !.centerX = Rat(1, 2), !.centerY = Rat(1, 2)] }
        \cup { [cropState EXCEPT !.centerX = Rat(1, 2), !.centerY = Rat(1, 2),
                                 !.scale = RInt(1)] }

UpdateCropState(id) ==
    /\ id \in ImageIds(images)
    /\ \E cropState \in EditedFramings(ImageById(images, id)) :
          /\ images' = ReduceUpdateCropState(images, id, cropState)
          /\ userFramings' = [i \in DOMAIN userFramings \cup {id} |->
                                 IF i = id THEN cropState ELSE userFramings[i]]
    /\ storedCrops' = SaveCropStatesEffect(images', storedCrops)
    /\ UNCHANGED <<settings, selectedImageId, editingImageId, cropCache, nextId,
                   addCall, jobs, recompute, batch,
                   exportChange, crop, exporting>>
    /\ observed' = NoObservation

\* updateSettings({enableSmartCrop}) from the switch.
UpdateSettings(enable) ==
    /\ enable # settings.enableSmartCrop
    /\ settings' = [settings EXCEPT !.enableSmartCrop = enable]
    /\ UNCHANGED <<images, selectedImageId, editingImageId, cropCache, storedCrops,
                   nextId, addCall, jobs, recompute, batch,
                   exportChange, crop, exporting, userFramings>>
    /\ observed' = NoObservation

\* Line 312 as it would be without the test of enableSmartCrop.
ExportChangeClearsCacheAlways(enableSmartCrop) == TRUE

\* Whether updateExportSettings clears the cache (line 312).
ExportChangeClearsCache(enableSmartCrop) == enableSmartCrop

\* updateExportSettings with a Partial<ExportSettings> that holds
\* targetWidth, targetHeight or both: a field is given when it is in the
\* partial's domain, whatever its value.
UpdateExportSize(partial) ==
    /\ DOMAIN partial # {}
    /\ LET newWidth  == IF "targetWidth" \in DOMAIN partial
                        THEN partial.targetWidth ELSE settings.targetWidth
           newHeight == IF "targetHeight" \in DOMAIN partial
                        THEN partial.targetHeight ELSE settings.targetHeight
       IN  /\ settings' = [settings EXCEPT !.targetWidth = newWidth,
                                           !.targetHeight = newHeight]
           /\ images' = ReduceUpdateAllCropStates(images, Rat(newWidth, newHeight))
    /\ cropCache' = IF ExportChangeClearsCache(settings.enableSmartCrop)
                    THEN clearSmartCropCache(cropCache, 0)
                    ELSE cropCache
    /\ storedCrops' = SaveCropStatesEffect(images', storedCrops)
    /\ exportChange' = [ran      |-> TRUE,
                        enabled  |-> settings.enableSmartCrop,
                        cached   |-> cropCache # EmptyCache,
                        analysed |-> \E i \in 1..Len(images) :
                                        images[i].smartCropResult # NoResult]
    /\ userFramings' = <<>>
    /\ UNCHANGED <<selectedImageId, editingImageId, nextId, addCall, jobs,
                   recompute, batch, crop, exporting>>
    /\ observed' = NoObservation

\* The partial with the fields that are not 0.
PartialSize(width, height) ==
    [field \in (IF width # 0 THEN {"targetWidth"} ELSE {}) \cup
               (IF height # 0 THEN {"targetHeight"} ELSE {})
        |-> IF field = "targetWidth" THEN width ELSE height]

\* updateExportSettings with a width, a height or both (0: not given).
UpdateExportSettings(width, height) ==
    /\ width # 0 \/ height # 0
    /\ UpdateExportSize(PartialSize(width, height))

-----------------------------------------------------------------------------
(* useAspectRatio and the size fields of the Sidebar *)

\* The largest target size the model follows.
MaxTargetSize == 1200

\* The numbers typed into the width and the height field (handleWidthChange
\* and handleHeightChange pass integers above zero only).
TypedSizes == {1, 2, 800, 1200}

\* aspectPresets: 1:1, 4:3, 3:2, 16:9, 9:16, 21:9.
AspectPresets == {Rat(1, 1), Rat(4, 3), Rat(3, 2), Rat(16, 9), Rat(9, 16), Rat(21, 9)}

\* What useAspectRatio computes from is finite: both sizes are above zero.
SizesArePositive == settings.targetWidth > 0 /\ settings.targetHeight > 0

\* The partial setWidth(width) hands to updateExportSettings.
SetWidthPartial(width) ==
    IF settings.aspectLocked
    THEN LET aspect    == Rat(settings.targetWidth, settings.targetHeight)
             newHeight == MathRound(RDiv(RInt(width), aspect))
         IN  [targetWidth |-> width, targetHeight |-> newHeight]
    ELSE [targetWidth |-> width]

\* The partial setHeight(height) hands to updateExportSettings.
SetHeightPartial(height) ==
    IF settings.aspectLocked
    THEN LET aspect   == Rat(settings.targetWidth, settings.targetHeight)
             newWidth == MathRound(RMul(RInt(height), aspect))
         IN  [targetWidth |-> newWidth, targetHeight |-> height]
    ELSE [targetHeight |-> height]

\* The partial setAspect(newAspect) hands to updateExportSettings; the
\* preset list of the Sidebar computes the same from its own width.
SetAspectPartial(newAspect) ==
    [targetHeight |-> MathRound(RDiv(RInt(settings.targetWidth), newAspect))]

\* Whether the model follows a partial: its sizes are within the bound.
WithinTargetBound(partial) ==
    \A field \in DOMAIN partial : partial[field] <= MaxTargetSize

SetWidth(width) ==
    /\ SizesArePositive
    /\ WithinTargetBound(SetWidthPartial(width))
    /\ UpdateExportSize(SetWidthPartial(width))

SetHeight(height) ==
    /\ SizesArePositive
    /\ WithinTargetBound(SetHeightPartial(height))
    /\ UpdateExportSize(SetHeightPartial(height))

SetAspect(newAspect) ==
    /\ SizesArePositive
    /\ WithinTargetBound(SetAspectPartial(newAspect))
    /\ UpdateExportSize(SetAspectPartial(newAspect))

\* The preset list's onValueChange (Sidebar lines 165-171).
SelectPreset(preset) ==
    /\ SizesArePositive
    /\ WithinTargetBound(SetAspectPartial(preset))
    /\ UpdateExportSize(SetAspectPartial(preset))

\* toggleAspectLock: updateExportSettings({aspectLocked: !aspectLocked}).
ToggleAspectLock ==
    /\ settings' = [settings EXCEPT !.aspectLocked = ~settings.aspectLocked]
    /\ UNCHANGED <<images, selectedImageId, editingImageId, cropCache, storedCrops,
                   nextId, addCall, jobs, recompute, batch,
                   exportChange, crop, exporting, userFramings>>
    /\ observed' = NoObservation

\* handleApplyToAll: the first entry's framing goes to applyCropToAll.
ApplyCropToAll ==
    /\ Len(images) > 0
    /\ images' = ReduceApplyCropToAll(images, images[1].cropState, settings)
    /\ storedCrops' = SaveCropStatesEffect(images', storedCrops)
    /\ observed' = [op       |-> "applyCropToAll",
                    selected |-> FALSE,
                    editing  |-> FALSE,
                    cached   |-> FALSE,
                    payload  |-> images[1].cropState]
    /\ userFramings' = <<>>
    /\ UNCHANGED <<settings, selectedImageId, editingImageId, cropCache, nextId,
                   addCall, jobs, recompute, batch,
                   exportChange, crop, exporting>>

\* setSelectedImage with an entry's identity or null.
SetSelectedImage(id) ==
    /\ id # selectedImageId
    /\ selectedImageId' = id
    /\ UNCHANGED <<images, settings, editingImageId, cropCache, storedCrops, nextId,
                   addCall, jobs, recompute, batch,
                   exportChange, crop, exporting, userFramings>>
    /\ observed' = NoObservation

\* setEditingImage with an entry's identity (ImageCard) or null (onClose).
SetEditingImage(id) ==
    /\ id # editingImageId
    /\ editingImageId' = id
    /\ UNCHANGED <<images, settings, selectedImageId, cropCache, storedCrops, nextId,
                   addCall, jobs, recompute, batch,
                   exportChange, crop, exporting, userFramings>>
    /\ observed' = NoObservation

-----------------------------------------------------------------------------
(* The analysis jobs: runSmartCropForImage and recomputeSmartCrop *)

\* A timer set by addImages fires: runSmartCropForImage(img.id, img) runs up
\* to the detector call, or to the end when the cache answers.
JobStart(job) ==
    /\ job \in jobs
    /\ job.pc = "timer"
    /\ LET run == runSmartCropStart(images, cropCache, job.id, job.image,
                                    job.targetWidth, job.targetHeight)
       IN  /\ images' = run.images
           /\ jobs' = (jobs \ {job}) \cup
                        (IF run.hit THEN {} ELSE {[job EXCEPT !.pc = "detect"]})
    /\ storedCrops' = SaveCropStatesEffect(images', storedCrops)
    /\ UNCHANGED <<settings, selectedImageId, editingImageId, cropCache, nextId,
                   addCall, recompute, batch,
                   exportChange, crop, exporting, userFramings>>
    /\ observed' = NoObservation

\* The loop as it would be with Promise.all over the entries: every entry
\* of the queue that is in the collection has its detector call started.
RecomputeLoopAllAtOnce(imgs, cache, queue, targetWidth, targetHeight) ==
    LET present == SelectSeq(queue, LAMBDA id : id \in ImageIds(imgs))
        ids     == {present[p] : p \in 1..Len(present)}
    IN  [images |-> [i \in 1..Len(imgs) |->
                        IF imgs[i].id \in ids
                        THEN [imgs[i] EXCEPT !.isSmartCropPending = TRUE]
                        ELSE imgs[i]],
         queue  |-> <<>>,
         job    |-> {[id |-> id, origin |-> "recompute", pc |-> "detect",
                      targetWidth |-> targetWidth, targetHeight |-> targetHeight,
                      image |-> SnapshotOf(ImageById(imgs, id))] : id \in ids}]

\* The loop of recomputeSmartCrop (lines 335-339) from the queue's head up to
\* the next detector call: an entry that is gone is passed over, one the
\* cache answers is committed at once.
RECURSIVE RecomputeLoop(_, _, _, _, _)
RecomputeLoop(imgs, cache, queue, targetWidth, targetHeight) ==
    IF queue = <<>>
    THEN [images |-> imgs, queue |-> <<>>, job |-> {}]
    ELSE IF Head(queue) \notin ImageIds(imgs)
         THEN RecomputeLoop(imgs, cache, Tail(queue), targetWidth, targetHeight)
         ELSE LET id    == Head(queue)
                  image == SnapshotOf(ImageById(imgs, id))
                  run   == runSmartCropStart(imgs, cache, id, image,
                                             targetWidth, targetHeight)
              IN  IF run.hit
                  THEN RecomputeLoop(run.images, cache, Tail(queue),
                                     targetWidth, targetHeight)
                  ELSE [images |-> run.images,
                        queue  |-> Tail(queue),
                        job    |-> {[id |-> id, origin |-> "recompute", pc |-> "detect",
                                     targetWidth |-> targetWidth,
                                     targetHeight |-> targetHeight,
                                     image |-> image]}]

\* handleRecomputeSmartCrop -> recomputeSmartCrop.
RecomputeSmartCrop ==
    /\ Len(images) > 0
    /\ ~recompute.active
    /\ IF ~settings.enableSmartCrop
       THEN UNCHANGED <<images, cropCache, storedCrops, jobs, recompute>>
       ELSE LET loop == RecomputeLoop(images, EmptyCache,
                                      [i \in 1..Len(images) |-> images[i].id],
                                      settings.targetWidth, settings.targetHeight)
            IN  /\ cropCache' = clearSmartCropCache(cropCache, 0)
                /\ images' = loop.images
                /\ jobs' = jobs \cup loop.job
                /\ recompute' = IF loop.job = {} THEN NoRecompute
                                ELSE [active |-> TRUE, queue |-> loop.queue,
                                      targetWidth |-> settings.targetWidth,
                                      targetHeight |-> settings.targetHeight]
                /\ storedCrops' = SaveCropStatesEffect(images', storedCrops)
    /\ UNCHANGED <<settings, selectedImageId, editingImageId, nextId, addCall, batch,
                   exportChange, crop, exporting, userFramings>>
    /\ observed' = NoObservation

JobOutcomes(job) ==
    Outcomes(job.image.originalWidth, job.image.originalHeight,
             job.targetWidth, job.targetHeight)

\* A detector call ends: analyzeImage returns, runSmartCropForImage finishes,
\* and a recomputeSmartCrop loop that awaited it goes on.
JobResolve(job, outcome) ==
    /\ job \in jobs
    /\ job.pc = "detect"
    /\ outcome \in JobOutcomes(job)
    /\ LET analysis == analyzeImageSettle(
                           cropCache,
                           getCacheKey(job.id, job.targetWidth, job.targetHeight),
                           outcome)
           settled  == runSmartCropSettle(images, job.id, job.image,
                                          job.targetWidth, job.targetHeight, analysis)
           loop     == IF job.origin = "recompute"
                       THEN RecomputeLoop(settled, analysis.cache, recompute.queue,
                                          recompute.targetWidth, recompute.targetHeight)
                       ELSE [images |-> settled, queue |-> recompute.queue, job |-> {}]
       IN  /\ cropCache' = analysis.cache
           /\ images' = loop.images
           /\ jobs' = (jobs \ {job}) \cup loop.job
           /\ recompute' = IF job.origin # "recompute" THEN recompute
                           ELSE IF loop.job = {} THEN NoRecompute
                           ELSE [recompute EXCEPT !.queue = loop.queue]
    /\ storedCrops' = SaveCropStatesEffect(images', storedCrops)
    /\ UNCHANGED <<settings, selectedImageId, editingImageId, nextId, addCall, batch,
                   exportChange, crop, exporting, userFramings>>
    /\ observed' = NoObservation

-----------------------------------------------------------------------------
(* smartCropWorker.ts: batchAnalyze (lines 109-142) *)

\* The bitmaps a batch job can carry, by image identity.
BatchJobChoices ==
    { [imageId |-> 1, width |-> 1200, height |-> 800,
       targetWidth |-> 1200, targetHeight |-> 800],
      [imageId |-> 2, width |-> 600, height |-> 900,
       targetWidth |-> 1200, targetHeight |-> 800] }

Min(a, b) == IF a <= b THEN a ELSE b

\* The slice as it would be if it took one job too many.
ChunkEndOneMore(b) == Min(b.i + b.concurrency + 1, Len(b.jobs))

\* jobs.slice(i, i + concurrency) ends at position ChunkEnd, counted from 1.
ChunkEnd(b) == Min(b.i + b.concurrency, Len(b.jobs))

ChunkOf(b) == (b.i + 1)..ChunkEnd(b)

InFlight(b) == {k \in 1..Len(b.jobs) : b.status[k] = "inflight"}

\* The await as it would be with Promise.race: one job of the chunk is done.
ChunkSettledAny(b) == \E k \in ChunkOf(b) : b.status[k] = "done"

\* Promise.all over the chunk has resolved: no job of the chunk is pending.
ChunkSettled(b) == \A k \in ChunkOf(b) : b.status[k] = "done"

\* Lines 134-136 as they would be with onProgress called before completed++.
BatchJobDoneStaleCount(b, k, ret) ==
    [b EXCEPT !.status[k] = "done",
              !.results = [id \in DOMAIN b.results \cup {b.jobs[k].imageId} |->
                              IF id = b.jobs[k].imageId THEN ret ELSE b.results[id]],
              !.completed = b.completed + 1,
              !.progress = Append(b.progress, <<b.completed, Len(b.jobs)>>)]

\* Lines 134-136, once analyzeImage has returned for job k.
BatchJobDone(b, k, ret) ==
    [b EXCEPT !.status[k] = "done",
              !.results = [id \in DOMAIN b.results \cup {b.jobs[k].imageId} |->
                              IF id = b.jobs[k].imageId THEN ret ELSE b.results[id]],
              !.completed = b.completed + 1,
              !.progress = Append(b.progress, <<b.completed + 1, Len(b.jobs)>>)]

\* batch.map(...) over positions k..hi: every job calls analyzeImage; the
\* cache answers at once, or the detector is invoked.
RECURSIVE BatchStartJobs(_, _, _, _)
BatchStartJobs(b, cache, k, hi) ==
    IF k > hi THEN b
    ELSE LET job == b.jobs[k]
             key == getCacheKey(job.imageId, job.targetWidth, job.targetHeight)
             started == IF key \in DOMAIN cache
                        THEN [BatchJobDone(b, k, cache[key]) EXCEPT
                                 !.finished = Append(@, <<k, "cached">>)]
                        ELSE [b EXCEPT !.status[k] = "inflight"]
         IN  BatchStartJobs(started, cache, k + 1, hi)

\* The for loop from the start of the chunk at b.i, up to the next await
\* that has to wait, or to the return.
RECURSIVE BatchLoop(_, _)
\* The loop as it would be with the test i + concurrency < jobs.length.
BatchLoopStopsEarly(b, cache) ==
    IF b.i + b.concurrency >= Len(b.jobs)
    THEN [b EXCEPT !.pc = "returned"]
    ELSE LET started == BatchStartJobs(b, cache, b.i + 1, ChunkEnd(b))
         IN  IF ChunkSettled(started)
             THEN BatchLoop([started EXCEPT !.i = b.i + b.concurrency], cache)
             ELSE started

BatchLoop(b, cache) ==
    IF b.i >= Len(b.jobs)
    THEN [b EXCEPT !.pc = "returned"]
    ELSE LET started == BatchStartJobs(b, cache, b.i + 1, ChunkEnd(b))
         IN  IF ChunkSettled(started)
             THEN BatchLoop([started EXCEPT !.i = b.i + b.concurrency], cache)
             ELSE started

BatchAnalyzeCall(batchJobs, concurrency) ==
    /\ batch.pc \in {"idle", "returned", "rejected"}
    /\ batch' = BatchLoop([pc |-> "running", jobs |-> batchJobs,
                           concurrency |-> concurrency, i |-> 0,
                           status |-> [k \in 1..Len(batchJobs) |-> "unstarted"],
                           completed |-> 0, results |-> <<>>, progress |-> <<>>,
                           finished |-> <<>>],
                          cropCache)
    /\ UNCHANGED <<images, settings, selectedImageId, editingImageId, cropCache,
                   storedCrops, nextId, addCall, jobs, recompute,
                   exportChange, crop, exporting, userFramings>>
    /\ observed' = NoObservation

BatchOutcomes(job) == Outcomes(job.width, job.height, job.targetWidth, job.targetHeight)

\* The detector call of job k ends. Were analyzeImage to throw, Promise.all
\* would reject and batchAnalyze with it.
BatchJobResolve(k, outcome) ==
    /\ batch.pc = "running"
    /\ k \in InFlight(batch)
    /\ outcome \in BatchOutcomes(batch.jobs[k])
    /\ LET job      == batch.jobs[k]
           analysis == analyzeImageSettle(
                           cropCache,
                           getCacheKey(job.imageId, job.targetWidth, job.targetHeight),
                           outcome)
           done     == [BatchJobDone(batch, k, analysis.ret) EXCEPT
                           !.finished = Append(@, <<k, IF outcome.ok THEN "ok"
                                                                     ELSE "failed">>)]
       IN  /\ cropCache' = analysis.cache
           /\ batch' = IF analysis.thrown
                       THEN [batch EXCEPT !.pc = "rejected", !.status[k] = "done"]
                       ELSE IF ChunkSettled(done)
                       THEN BatchLoop([done EXCEPT !.i = done.i + done.concurrency],
                                      analysis.cache)
                       ELSE done
    /\ UNCHANGED <<images, settings, selectedImageId, editingImageId,
                   storedCrops, nextId, addCall, jobs, recompute,
                   exportChange, crop, exporting, userFramings>>
    /\ observed' = NoObservation

\* clearSmartCropCache(), as the store calls it between batches.
BatchClearCache ==
    /\ batch.pc \in {"idle", "returned", "rejected"}
    /\ cropCache # EmptyCache
    /\ cropCache' = clearSmartCropCache(cropCache, 0)
    /\ UNCHANGED <<images, settings, selectedImageId, editingImageId,
                   storedCrops, nextId, addCall, jobs, recompute, batch,
                   exportChange, crop, exporting, userFramings>>
    /\ observed' = NoObservation

-----------------------------------------------------------------------------
(* dispatch of the per-entry cases of appReducer, with any identity *)

\* The identities a per-entry action can name: those handed out or not yet.
DispatchIds == 1..MaxImages

\* The framing an UPDATE_CROP_STATE action can carry.
DispatchedFramings ==
    { [centerX |-> Rat(1, 4), centerY |-> Rat(3, 4), scale |-> RInt(2),
       aspect |-> Rat(3, 2), sourceHash |-> "h1"] }

\* The result a SET_IMAGE_SMART_CROP action can carry.
DispatchedResults == { DetectorRect(1200, 800, 1200, 800) }

DispatchUpdateCropState(id, cropState) ==
    /\ images' = ReduceUpdateCropState(images, id, cropState)
    /\ storedCrops' = SaveCropStatesEffect(images', storedCrops)
    /\ UNCHANGED <<settings, selectedImageId, editingImageId, cropCache, nextId,
                   addCall, jobs, recompute, batch,
                   exportChange, crop, exporting, userFramings>>
    /\ observed' = NoObservation

DispatchSetImageSmartCrop(id, result) ==
    /\ images' = ReduceSetImageSmartCrop(images, id, result)
    /\ storedCrops' = SaveCropStatesEffect(images', storedCrops)
    /\ UNCHANGED <<settings, selectedImageId, editingImageId, cropCache, nextId,
                   addCall, jobs, recompute, batch,
                   exportChange, crop, exporting, userFramings>>
    /\ observed' = NoObservation

DispatchSetImageProcessing(id, isProcessing) ==
    /\ images' = ReduceSetImageProcessing(images, id, isProcessing)
    /\ storedCrops' = SaveCropStatesEffect(images', storedCrops)
    /\ UNCHANGED <<settings, selectedImageId, editingImageId, cropCache, nextId,
                   addCall, jobs, recompute, batch,
                   exportChange, crop, exporting, userFramings>>
    /\ observed' = NoObservation

DispatchSetImageSmartCropPending(id, pending) ==
    /\ images' = ReduceSetImageSmartCropPending(images, id, pending)
    /\ storedCrops' = SaveCropStatesEffect(images', storedCrops)
    /\ UNCHANGED <<settings, selectedImageId, editingImageId, cropCache, nextId,
                   addCall, jobs, recompute, batch,
                   exportChange, crop, exporting, userFramings>>
    /\ observed' = NoObservation

-----------------------------------------------------------------------------
(* handleExport and exportImages *)

\* The naming fields the export settings can hold when the export starts.
ExportNamings ==
    { DEFAULT_NAMING,
      [prefix |-> "a1", suffix |-> "1", startIndex |-> 0, format |-> "png"] }

\* generateExportFilename as it would be if it left the index out.
generateExportFilenameNoIndex(index, naming) ==
    naming.prefix \o ToString(naming.startIndex) \o naming.suffix \o "."
        \o (IF naming.format = "jpeg" THEN "jpg" ELSE naming.format)

generateExportFilename(index, naming) ==
    naming.prefix \o ToString(naming.startIndex + index) \o naming.suffix \o "."
        \o (IF naming.format = "jpeg" THEN "jpg" ELSE naming.format)

\* handleExport as it would be without its test of state.images.length.
HandleExportRefusesNever(imgs) == FALSE

\* handleExport's test of state.images.length.
HandleExportRefuses(imgs) == Len(imgs) = 0

\* exportImages up to its first await: the test of images.length, then the
\* call waits for processImage on the first image.
exportImagesBegin(imgs, naming) ==
    IF Len(imgs) = 0
    THEN [NoExport EXCEPT !.pc = "failed", !.naming = naming,
                          !.toast = "Export failed. Please try again."]
    ELSE [NoExport EXCEPT !.pc = "running", !.naming = naming, !.i = 1,
                          !.images = [k \in 1..Len(imgs) |-> imgs[k].id]]

\* handleExport; the button is disabled while an export is running.
HandleExport(naming) ==
    /\ exporting.pc # "running"
    /\ exporting' = IF HandleExportRefuses(images)
                    THEN [NoExport EXCEPT !.pc = "refused", !.naming = naming,
                                          !.toast = "No images to export"]
                    ELSE exportImagesBegin(images, naming)
    /\ UNCHANGED <<images, settings, selectedImageId, editingImageId, cropCache,
                   storedCrops, nextId, addCall, jobs, recompute, batch,
                   exportChange, crop, userFramings>>
    /\ observed' = NoObservation

\* exportImages when processImage has ended for the image at position
\* call.i: with a blob, or with a rejection that nothing in exportImages
\* catches and handleExport reports.
exportImagesStep(call, blob) ==
    LET n == Len(call.images)
    IN  IF ~blob
        THEN [call EXCEPT !.pc = "failed", !.failed = {call.i},
                          !.toast = "Export failed. Please try again."]
        ELSE IF n = 1
        THEN [call EXCEPT !.pc = "done",
                          !.saved = <<[kind |-> "file",
                                       name |-> generateExportFilename(0, call.naming),
                                       entries |-> <<>>,
                                       id |-> call.images[1]]>>,
                          !.progress = <<<<1, 1>>>>,
                          !.toast = "Exported"]
        ELSE [call EXCEPT !.i = call.i + 1,
                          !.zip = Append(call.zip,
                                     [name |-> generateExportFilename(call.i - 1,
                                                                      call.naming),
                                      id |-> call.images[call.i]]),
                          !.progress = Append(call.progress, <<call.i, n>>)]

ExportProcessImage(blob) ==
    /\ exporting.pc = "running"
    /\ exporting.i <= Len(exporting.images)
    /\ exporting' = exportImagesStep(exporting, blob)
    /\ UNCHANGED <<images, settings, selectedImageId, editingImageId, cropCache,
                   storedCrops, nextId, addCall, jobs, recompute, batch,
                   exportChange, crop, userFramings>>
    /\ observed' = NoObservation

\* exportImages after its loop: the archive is generated and saved.
ExportSaveArchive ==
    /\ exporting.pc = "running"
    /\ exporting.i > Len(exporting.images)
    /\ exporting' = [exporting EXCEPT !.pc = "done",
                                      !.saved = <<[kind |-> "archive",
                                                   name |-> "mybirme-export.zip",
                                                   entries |-> exporting.zip,
                                                   id |-> 0]>>,
                                      !.toast = "Exported"]
    /\ UNCHANGED <<images, settings, selectedImageId, editingImageId, cropCache,
                   storedCrops, nextId, addCall, jobs, recompute, batch,
                   exportChange, crop, userFramings>>
    /\ observed' = NoObservation

-----------------------------------------------------------------------------
(* Specifications *)

\* The collection and its analysis jobs.
Next ==
    \/ \E files \in FileLists : AddImagesBegin(files)
    \/ AddImagesCommit
    \/ \E id \in ImageIds(images) : RemoveImage(id)
    \/ ClearImages
    \/ \E enable \in BOOLEAN : UpdateSettings(enable)
    \/ \E job \in jobs : JobStart(job)
    \/ RecomputeSmartCrop
    \/ \E job \in jobs : \E outcome \in JobOutcomes(job) : JobResolve(job, outcome)

Spec == Init /\ [][Next]_vars

\* The collection, its analysis jobs and the export size.
NextExport ==
    \/ \E files \in FileLists : AddImagesBegin(files)
    \/ AddImagesCommit
    \/ \E enable \in BOOLEAN : UpdateSettings(enable)
    \/ \E width \in TargetWidths \cup {0}, height \in TargetHeights \cup {0} :
          UpdateExportSettings(width, height)
    \/ \E job \in jobs : JobStart(job)
    \/ \E job \in jobs : \E outcome \in JobOutcomes(job) : JobResolve(job, outcome)

SpecExport == Init /\ [][NextExport]_vars

\* The collection and the two pointers into it.
NextPointers ==
    \/ \E files \in FileLists : AddImagesBegin(files)
    \/ AddImagesCommit
    \/ \E id \in ImageIds(images) : RemoveImage(id)
    \/ ClearImages
    \/ \E id \in ImageIds(images) \cup {0} : SetSelectedImage(id)
    \/ \E id \in ImageIds(images) \cup {0} : SetEditingImage(id)

SpecPointers == Init /\ [][NextPointers]_vars

\* batchAnalyze and the cache it shares with analyzeImage.
NextBatch ==
    \/ \E batchJobs \in SeqsUpTo(BatchJobChoices, MaxBatchJobs),
          concurrency \in 1..MaxConcurrency :
          BatchAnalyzeCall(batchJobs, concurrency)
    \/ \E k \in 1..Len(batch.jobs) :
          \E outcome \in BatchOutcomes(batch.jobs[k]) : BatchJobResolve(k, outcome)
    \/ BatchClearCache

SpecBatch == Init /\ [][NextBatch]_vars

\* cropMath on its own: the image sizes and the framings it is called with.
\* The centers lie in [0, 1], the zooms are at least 1, the aspects positive.
CropImageWidths == {3, 1200, 1201}

CropImageHeights == {3, 400, 800}

CropCenters == {RInt(0), Rat(1, 3), Rat(1, 2), RInt(1)}

CropScales == {RInt(1), Rat(6, 5), RInt(2), RInt(10)}

CropAspects == {RInt(1), Rat(3, 2), Rat(2, 3), RInt(2)}

CropCalls ==
    { [NoCrop EXCEPT !.pc = "args", !.imageWidth = w, !.imageHeight = h,
                     !.cropState = [centerX |-> cx, centerY |-> cy, scale |-> scale,
                                    aspect |-> aspect, sourceHash |-> ""]]
      : w \in CropImageWidths, h \in CropImageHeights,
        cx \in CropCenters, cy \in CropCenters,
        scale \in CropScales, aspect \in CropAspects }

InitCrop ==
    /\ images = <<>>
    /\ settings = DEFAULT_APP_SETTINGS
    /\ selectedImageId = 0
    /\ editingImageId = 0
    /\ cropCache = EmptyCache
    /\ storedCrops = <<>>
    /\ nextId = 0
    /\ addCall = NoAddCall
    /\ jobs = {}
    /\ recompute = NoRecompute
    /\ batch = NoBatch
    /\ exportChange = NoExportChange
    /\ observed = NoObservation
    /\ exporting = NoExport
    /\ userFramings = <<>>
    /\ crop \in CropCalls

\* calculateCrop(imageWidth, imageHeight, cropState) returns.
CalculateCropCall ==
    /\ crop.pc = "args"
    /\ crop' = [crop EXCEPT !.pc = "calculated",
                            !.calc = calculateCrop(crop.imageWidth, crop.imageHeight,
                                                   crop.cropState)]
    /\ UNCHANGED <<images, settings, selectedImageId, editingImageId, cropCache,
                   storedCrops, nextId, addCall, jobs, recompute, batch,
                   exportChange, observed, exporting, userFramings>>

\* getCropRect(imageWidth, imageHeight, cropState) returns, as exportImages
\* calls it for the rectangle it hands to processImage.
GetCropRectCall ==
    /\ crop.pc = "args"
    /\ crop' = [crop EXCEPT !.pc = "rounded",
                            !.calc = calculateCrop(crop.imageWidth, crop.imageHeight,
                                                   crop.cropState),
                            !.rect = getCropRect(crop.imageWidth, crop.imageHeight,
                                                 crop.cropState)]
    /\ UNCHANGED <<images, settings, selectedImageId, editingImageId, cropCache,
                   storedCrops, nextId, addCall, jobs, recompute, batch,
                   exportChange, observed, exporting, userFramings>>

\* getMaxScale(imageWidth, imageHeight, aspect) returns and the crop is derived
\* with the zoom set to what it returned.
GetMaxScaleCall ==
    /\ crop.pc = "args"
    /\ LET maxScale  == getMaxScale(crop.imageWidth, crop.imageHeight,
                                    crop.cropState.aspect)
           cropState == [crop.cropState EXCEPT !.scale = maxScale]
       IN  crop' = [crop EXCEPT !.pc = "maxZoom",
                                !.cropState = cropState,
                                !.calc = calculateCrop(crop.imageWidth, crop.imageHeight,
                                                       cropState)]
    /\ UNCHANGED <<images, settings, selectedImageId, editingImageId, cropCache,
                   storedCrops, nextId, addCall, jobs, recompute, batch,
                   exportChange, observed, exporting, userFramings>>

NextCrop ==
    \/ CalculateCropCall
    \/ GetCropRectCall
    \/ GetMaxScaleCall

SpecCrop == InitCrop /\ [][NextCrop]_vars

\* The store as AppProvider builds it, whatever cropMath is called with.
InitStore ==
    /\ images = <<>>
    /\ settings = DEFAULT_APP_SETTINGS
    /\ selectedImageId = 0
    /\ editingImageId = 0
    /\ cropCache = EmptyCache
    /\ storedCrops = <<>>
    /\ nextId = 0
    /\ addCall = NoAddCall
    /\ jobs = {}
    /\ recompute = NoRecompute
    /\ batch = NoBatch
    /\ exportChange = NoExportChange
    /\ observed = NoObservation
    /\ exporting = NoExport
    /\ userFramings = <<>>

\* smartCropToCropState on its own: the image sizes, the detector rectangles
\* and the target aspects it is called with. Some rectangles are larger than
\* the base or reach out of the image.
ConvertImageSizes == {<<1200, 800>>, <<600, 900>>, <<100, 100>>}

ConvertRects ==
    { [x |-> x, y |-> y, width |-> w, height |-> h]
      : x \in {0, 10, 300}, y \in {0, 5, 200},
        w \in {10, 75, 300, 600, 1300}, h \in {10, 75, 300, 800} }

ConvertAspects == {RInt(1), Rat(3, 2), Rat(2, 3)}

ConvertCalls ==
    { [pc |-> "rect", imageWidth |-> size[1], imageHeight |-> size[2],
       smartCrop |-> rect, targetAspect |-> aspect,
       cropState |-> DEFAULT_CROP_STATE, calc |-> NoCrop.calc]
      : size \in ConvertImageSizes, rect \in ConvertRects, aspect \in ConvertAspects }

InitConvert == InitStore /\ crop \in ConvertCalls

\* smartCropToCropState(smartCrop, imageWidth, imageHeight, targetAspect) returns.
SmartCropToCropStateCall ==
    /\ crop.pc = "rect"
    /\ crop' = [crop EXCEPT !.pc = "converted",
                            !.cropState = smartCropToCropState(crop.smartCrop,
                                              crop.imageWidth, crop.imageHeight,
                                              crop.targetAspect)]
    /\ UNCHANGED <<images, settings, selectedImageId, editingImageId, cropCache,
                   storedCrops, nextId, addCall, jobs, recompute, batch,
                   exportChange, observed, exporting, userFramings>>

\* calculateCrop returns for the framing smartCropToCropState produced.
CalculateConvertedCall ==
    /\ crop.pc = "converted"
    /\ crop' = [crop EXCEPT !.pc = "derived",
                            !.calc = calculateCrop(crop.imageWidth, crop.imageHeight,
                                                   crop.cropState)]
    /\ UNCHANGED <<images, settings, selectedImageId, editingImageId, cropCache,
                   storedCrops, nextId, addCall, jobs, recompute, batch,
                   exportChange, observed, exporting, userFramings>>

NextConvert ==
    \/ SmartCropToCropStateCall
    \/ CalculateConvertedCall

SpecConvert == InitConvert /\ [][NextConvert]_vars

\* clampCropCenter on its own: the centers, crop sizes and image sizes it is
\* called with. Some centers lie outside [0, 1], some crops exceed the image.
ClampCenters == {Rat(-1, 2), RInt(0), Rat(1, 4), Rat(1, 2), RInt(1), Rat(3, 2)}

ClampCropWidths == {RInt(0), RInt(50), Rat(1201, 2), RInt(1200), RInt(1500)}

ClampCropHeights == {RInt(50), RInt(800), RInt(1000)}

ClampImageSizes == {<<1200, 800>>, <<600, 900>>}

ClampCalls ==
    { [pc |-> "center", imageWidth |-> size[1], imageHeight |-> size[2],
       centerX |-> cx, centerY |-> cy, cropWidth |-> cw, cropHeight |-> ch,
       once |-> [centerX |-> cx, centerY |-> cy],
       twice |-> [centerX |-> cx, centerY |-> cy]]
      : size \in ClampImageSizes, cx \in ClampCenters, cy \in ClampCenters,
        cw \in ClampCropWidths, ch \in ClampCropHeights }

InitClamp == InitStore /\ crop \in ClampCalls

\* clampCropCenter(centerX, centerY, cropWidth, cropHeight, imageWidth,
\* imageHeight) returns.
ClampCropCenterCall ==
    /\ crop.pc = "center"
    /\ crop' = [crop EXCEPT !.pc = "clamped",
                            !.once = clampCropCenter(crop.centerX, crop.centerY,
                                         crop.cropWidth, crop.cropHeight,
                                         crop.imageWidth, crop.imageHeight)]
    /\ UNCHANGED <<images, settings, selectedImageId, editingImageId, cropCache,
                   storedCrops, nextId, addCall, jobs, recompute, batch,
                   exportChange, observed, exporting, userFramings>>

\* clampCropCenter returns for the center it returned, the sizes being the same.
ClampCropCenterAgain ==
    /\ crop.pc = "clamped"
    /\ crop' = [crop EXCEPT !.pc = "reclamped",
                            !.twice = clampCropCenter(crop.once.centerX, crop.once.centerY,
                                          crop.cropWidth, crop.cropHeight,
                                          crop.imageWidth, crop.imageHeight)]
    /\ UNCHANGED <<images, settings, selectedImageId, editingImageId, cropCache,
                   storedCrops, nextId, addCall, jobs, recompute, batch,
                   exportChange, observed, exporting, userFramings>>

NextClamp ==
    \/ ClampCropCenterCall
    \/ ClampCropCenterAgain

SpecClamp == InitClamp /\ [][NextClamp]_vars

\* The collection and its export.
NextExportRun ==
    \/ \E files \in FileLists : AddImagesBegin(files)
    \/ AddImagesCommit
    \/ \E id \in ImageIds(images) : RemoveImage(id)
    \/ \E naming \in ExportNamings : HandleExport(naming)
    \/ \E blob \in BOOLEAN : ExportProcessImage(blob)
    \/ ExportSaveArchive

SpecExportRun == Init /\ [][NextExportRun]_vars

\* The lists of files handed to addImages when its order matters: two
\* files that decode, a failing file before, between or after them.
AddFileLists ==
    FileLists \cup
    { <<GoodFile("h2"), GoodFile("h1")>>, <<GoodFile("h1"), GoodFile("h3")>>,
      <<GoodFile("h2"), GoodFile("h3"), GoodFile("h1")>> }

\* The collection as addImages, removeImage and the editor change it.
NextAdd ==
    \/ \E files \in AddFileLists : AddImagesBegin(files)
    \/ AddImagesCommit
    \/ \E id \in ImageIds(images) : RemoveImage(id)
    \/ \E id \in ImageIds(images) : UpdateCropState(id)

SpecAdd == Init /\ [][NextAdd]_vars

\* The lists of files handed to addImages when the load matters: files
\* that load, a file of zero width and a file of another type, alone and
\* before or after a file that loads.
LoadFileLists ==
    { <<GoodFile("h1")>>, <<GoodFile("h2")>>, <<GoodFile("h4")>>, <<GoodFile("h5")>>,
      <<GoodFile("h4"), GoodFile("h2")>>, <<GoodFile("h1"), GoodFile("h4")>>,
      <<GoodFile("h5"), GoodFile("h1")>>, <<GoodFile("h2"), GoodFile("h5")>> }

\* The collection as addImages fills it and the editor changes it.
NextLoad ==
    \/ \E files \in LoadFileLists : AddImagesBegin(files)
    \/ AddImagesCommit
    \/ \E id \in ImageIds(images) : UpdateCropState(id)

SpecLoad == Init /\ [][NextLoad]_vars

\* The collection, its analysis jobs and the editor.
NextEdit ==
    \/ \E files \in FileLists : AddImagesBegin(files)
    \/ AddImagesCommit
    \/ \E id \in ImageIds(images) : UpdateCropState(id)
    \/ \E job \in jobs : JobStart(job)
    \/ \E job \in jobs : \E outcome \in JobOutcomes(job) : JobResolve(job, outcome)

SpecEdit == Init /\ [][NextEdit]_vars

\* The target size as the size fields, the lock and the presets set it.
NextAspect ==
    \/ \E width \in TypedSizes : SetWidth(width)
    \/ \E height \in TypedSizes : SetHeight(height)
    \/ \E newAspect \in AspectPresets : SetAspect(newAspect)
    \/ \E preset \in AspectPresets : SelectPreset(preset)
    \/ ToggleAspectLock

SpecAspect == Init /\ [][NextAspect]_vars

\* The collection, its pointers and the per-entry cases of the reducer.
NextDispatch ==
    \/ \E files \in FileLists : AddImagesBegin(files)
    \/ AddImagesCommit
    \/ \E id \in ImageIds(images) \cup {0} : SetSelectedImage(id)
    \/ \E id \in ImageIds(images) \cup {0} : SetEditingImage(id)
    \/ \E id \in DispatchIds, cropState \in DispatchedFramings :
          DispatchUpdateCropState(id, cropState)
    \/ \E id \in DispatchIds, result \in DispatchedResults :
          DispatchSetImageSmartCrop(id, result)
    \/ \E id \in DispatchIds, isProcessing \in BOOLEAN :
          DispatchSetImageProcessing(id, isProcessing)
    \/ \E id \in DispatchIds, pending \in BOOLEAN :
          DispatchSetImageSmartCropPending(id, pending)

SpecDispatch == Init /\ [][NextDispatch]_vars

\* The collection, its pointers, its analysis jobs and clearImages.
NextClear ==
    \/ \E files \in FileLists : AddImagesBegin(files)
    \/ AddImagesCommit
    \/ ClearImages
    \/ \E enable \in BOOLEAN : UpdateSettings(enable)
    \/ \E id \in ImageIds(images) \cup {0} : SetSelectedImage(id)
    \/ \E id \in ImageIds(images) \cup {0} : SetEditingImage(id)
    \/ \E job \in jobs : JobStart(job)
    \/ \E job \in jobs : \E outcome \in JobOutcomes(job) : JobResolve(job, outcome)

SpecClear == Init /\ [][NextClear]_vars

\* The collection, its analysis jobs and everything that writes a framing.
NextFraming ==
    \/ \E files \in FileLists : AddImagesBegin(files)
    \/ AddImagesCommit
    \/ \E id \in ImageIds(images) : UpdateCropState(id)
    \/ \E width \in TargetWidths \cup {0}, height \in TargetHeights \cup {0} :
          UpdateExportSettings(width, height)
    \/ ApplyCropToAll
    \/ \E job \in jobs : JobStart(job)
    \/ \E job \in jobs : \E outcome \in JobOutcomes(job) : JobResolve(job, outcome)

SpecFraming == Init /\ [][NextFraming]_vars

-----------------------------------------------------------------------------
(* The pointers into the collection *)

\* C1: in every state selectedImageId and editingImageId are each empty or
\* the identity of an entry of the collection, so that after removeImage or
\* clearImages neither refers to a removed entry.
C1_PointersReferToEntries ==
    /\ selectedImageId \in ImageIds(images) \cup {0}
    /\ editingImageId \in ImageIds(images) \cup {0}

-----------------------------------------------------------------------------
(* The analysis jobs *)

EntryIds(imgs) == [i \in 1..Len(imgs) |-> imgs[i].id]

\* Entries of imgs that differ from the entry at the same place of old.
ChangedIds(old, imgs) == {old[i].id : i \in {n \in 1..Len(old) : imgs[n] # old[n]}}

\* C2: a job whose image has been removed leaves the collection as the
\* removal left it, when its timer fires and when its detector call ends: no
\* entry is created, and no entry changes except those the recomputeSmartCrop
\* loop that awaited the job goes on to.
C2_RemovedImageJobChangesNothing ==
    [][\A job \in jobs :
          job.id \notin ImageIds(images) =>
             /\ JobStart(job) => images' = images
             /\ \A outcome \in JobOutcomes(job) :
                   JobResolve(job, outcome) =>
                      /\ EntryIds(images') = EntryIds(images)
                      /\ IF job.origin = "recompute"
                         THEN ChangedIds(images, images') \subseteq
                                 {recompute.queue[n] : n \in 1..Len(recompute.queue)}
                         ELSE images' = images]_vars

\* A detector call has ended with a result for an image that was removed
\* while the call was in flight, and other entries are there to be changed.
C2_LateResultArrived ==
    /\ Len(images) > 0
    /\ \E id \in (1..nextId) \ ImageIds(images) :
          getCacheKey(id, settings.targetWidth, settings.targetHeight) \in DOMAIN cropCache

\* C3: addImages schedules exactly one job for an image it inserts if
\* auto-detection is enabled and no stored framing matched its fingerprint,
\* and none otherwise; an entry whose job has not reached the detector call
\* is pending.
C3_OneJobIffEnabledAndNothingStored ==
    [][/\ AddImagesCommit =>
             \A i \in (Len(images) + 1)..Len(images') :
                LET scheduled == {job \in jobs' \ jobs : job.id = images'[i].id}
                IN  IF /\ settings.enableSmartCrop
                       /\ images'[i].cropState.sourceHash \notin DOMAIN addCall.savedCrops
                    THEN Cardinality(scheduled) = 1
                    ELSE scheduled = {}
       /\ \A job \in jobs' :
             (job.pc = "timer" /\ job.id \in ImageIds(images')) =>
                ImageById(images', job.id).isSmartCropPending]_vars

\* C4: once the detector call of an entry that is still in the collection
\* has ended, with a result or with a failure, the entry is not pending.
C4_PendingClearedWhenCallEnds ==
    [][\A job \in jobs : \A outcome \in JobOutcomes(job) :
          (JobResolve(job, outcome) /\ job.id \in ImageIds(images')) =>
             ~ImageById(images', job.id).isSmartCropPending]_vars

C6_FailureLeavesFramingAndResult ==
    [][\A job \in jobs :
          LET key == getCacheKey(job.id, job.targetWidth, job.targetHeight)
              kept == job.id \in ImageIds(images) =>
                         /\ job.id \in ImageIds(images')
                         /\ ImageById(images', job.id).cropState =
                               ImageById(images, job.id).cropState
                         /\ ImageById(images', job.id).smartCropResult =
                               ImageById(images, job.id).smartCropResult
          IN  /\ (JobStart(job) /\ key \notin DOMAIN cropCache) => kept
              /\ \A outcome \in JobOutcomes(job) :
                    (~outcome.ok /\ JobResolve(job, outcome)) =>
                       /\ analyzeImageSettle(cropCache, key, outcome).ret = NoResult
                       /\ ~analyzeImageSettle(cropCache, key, outcome).thrown
                       /\ cropCache' = cropCache
                       /\ kept]_vars

\* The detector call of a freshly added image has failed: the entry has the
\* default fit framing, no result and no job.
C6_DetectorFailed ==
    \E i \in 1..Len(images) :
       /\ images[i].isSmartCropPending
       /\ \A job \in jobs : job.id # images[i].id
       /\ images[i].smartCropResult = NoResult
       /\ images[i].cropState.centerX = Rat(1, 2)
       /\ images[i].cropState.centerY = Rat(1, 2)
       /\ images[i].cropState.scale = RInt(1)

-----------------------------------------------------------------------------
(* The export size *)

\* C7: updateExportSettings with a width or a height changes, in every
\* entry, only the framing's aspect, which becomes newWidth / newHeight: the
\* entries, their order and every other field are as before.
C7_OnlyAspectChanges ==
    [][\A width \in TargetWidths \cup {0}, height \in TargetHeights \cup {0} :
          UpdateExportSettings(width, height) =>
             LET newWidth  == IF width # 0 THEN width ELSE settings.targetWidth
                 newHeight == IF height # 0 THEN height ELSE settings.targetHeight
             IN  /\ Len(images') = Len(images)
                 /\ \A i \in 1..Len(images) :
                       images'[i] = [images[i] EXCEPT
                                        !.cropState.aspect = Rat(newWidth, newHeight)]]_vars

\* The export size was changed to a square while an entry held a result, and
\* an entry has the framing its analysis gave it with the new aspect.
C7_AspectChangedAfterAnalysis ==
    /\ exportChange.ran
    /\ exportChange.analysed
    /\ \E i \in 1..Len(images) :
          /\ images[i].smartCropResult # NoResult
          /\ images[i].cropState.scale # RInt(1)
          /\ images[i].cropState.aspect = RInt(1)

-----------------------------------------------------------------------------
(* batchAnalyze *)

Unstarted(b) == {k \in 1..Len(b.jobs) : b.status[k] = "unstarted"}

\* C9: while batchAnalyze runs with ceiling c, at most c detector calls of
\* the batch are in flight.
C9_AtMostCeilingInFlight ==
    batch.pc = "running" => Cardinality(InFlight(batch)) <= batch.concurrency

\* A batch with more jobs than its ceiling of two or more has as many calls
\* in flight as the ceiling allows, and jobs that wait.
C9_CeilingReached ==
    /\ batch.pc = "running"
    /\ batch.concurrency >= 2
    /\ Cardinality(InFlight(batch)) = batch.concurrency
    /\ Unstarted(batch) # {}

\* C10 as stated: whenever jobs of the batch are unstarted, as many detector
\* calls are in flight as the ceiling allows, since a free slot admits the
\* next job at once.
C10_FreeSlotAdmitsNextJob ==
    (batch.pc = "running" /\ Unstarted(batch) # {}) =>
        Cardinality(InFlight(batch)) >= batch.concurrency

\* C10 as amended: jobs are admitted in submission order, a chunk of at most
\* c consecutive jobs at a time, and the next chunk only once every job of
\* the current chunk has ended; so while a call of the current chunk is in
\* flight every job before the chunk has ended and none after it has started.
C10_ChunkByChunkInOrder ==
    batch.pc = "running" =>
        /\ InFlight(batch) # {}
        /\ \A k \in 1..Len(batch.jobs) :
              /\ k <= batch.i => batch.status[k] = "done"
              /\ k \in ChunkOf(batch) => batch.status[k] \in {"inflight", "done"}
              /\ k > ChunkEnd(batch) => batch.status[k] = "unstarted"

\* A job of the current chunk has ended, another is still in flight, and the
\* jobs after the chunk wait although a slot is free.
C10_ChunkWaitsForItsLastJob ==
    /\ batch.pc = "running"
    /\ \E k \in ChunkOf(batch) : batch.status[k] = "done"
    /\ Cardinality(InFlight(batch)) < batch.concurrency
    /\ Unstarted(batch) # {}

-----------------------------------------------------------------------------
(* Removal, clearing and the cache *)

\* The cache keys of an image identity, for the export sizes in use.
KeysOf(id) ==
    {getCacheKey(id, targetWidth, targetHeight) :
        targetWidth \in TargetWidths, targetHeight \in TargetHeights}

\* C14: a result that analyzeImage has cached for a key stays in the cache,
\* unchanged, until that image or the whole cache is invalidated; and a call
\* with a key that is in the cache gives the cached result and starts no
\* detector call.
C14_CachedUntilInvalidated ==
    [][\A key \in DOMAIN cropCache :
          /\ (key \notin DOMAIN cropCache' \/ cropCache'[key] # cropCache[key]) =>
                \/ ClearImages
                \/ RecomputeSmartCrop
                \/ \E id \in ImageIds(images) : RemoveImage(id) /\ key \in KeysOf(id)
          /\ \A job \in jobs :
                (/\ JobStart(job)
                 /\ key = getCacheKey(job.id, job.targetWidth, job.targetHeight)) =>
                   /\ \A j \in jobs' : j.pc = "detect" => j \in jobs
                   /\ job.id \in ImageIds(images) =>
                         ImageById(images', job.id).smartCropResult = cropCache[key]]_vars

\* C15: removeImage(id) removes the entry with identity id and no other,
\* keeps the order of the rest, and deletes from the cache the keys of
\* identity id and no key of another identity.
C15_RemoveTakesOnlyItsOwn ==
    [][\A id \in ImageIds(images) :
          RemoveImage(id) =>
             /\ images' = SelectSeq(images, LAMBDA img : img.id # id)
             /\ DOMAIN cropCache' = DOMAIN cropCache \ KeysOf(id)
             /\ \A key \in DOMAIN cropCache' : cropCache'[key] = cropCache[key]]_vars

\* C16: a clearImages call leaves the collection empty, both pointers empty
\* and the cache without any entry, and it leaves the settings as they were.
C16_ClearEmptiesAllButSettings ==
    [][ClearImages =>
          /\ images' = <<>>
          /\ selectedImageId' = 0
          /\ editingImageId' = 0
          /\ DOMAIN cropCache' = {}
          /\ settings' = settings]_vars

\* clearImages has just run on a workspace with both pointers set, a cached
\* result and settings that are no longer the defaults.
C16_ClearedBusyWorkspace ==
    /\ observed.op = "clearImages"
    /\ observed.selected
    /\ observed.editing
    /\ observed.cached
    /\ settings # DEFAULT_APP_SETTINGS

-----------------------------------------------------------------------------
(* The framings *)

\* C17: applyCropToAll gives every entry the center and the zoom of the
\* framing handed over and the aspect targetWidth / targetHeight of the
\* current settings, whatever aspect that framing carries and whatever the
\* size of the entry's image.
C17_CopySetsCenterZoomAndGlobalAspect ==
    [][ApplyCropToAll =>
          /\ Len(images') = Len(images)
          /\ \A i \in 1..Len(images') :
                /\ images'[i].id = images[i].id
                /\ images'[i].cropState.centerX = images[1].cropState.centerX
                /\ images'[i].cropState.centerY = images[1].cropState.centerY
                /\ images'[i].cropState.scale = images[1].cropState.scale
                /\ images'[i].cropState.aspect =
                      Rat(settings.targetWidth, settings.targetHeight)]_vars

\* applyCropToAll has just run with a zoomed framing whose aspect was not the
\* current one, on two images of different sizes.
C17_CopiedStaleAspectAcrossSizes ==
    /\ observed.op = "applyCropToAll"
    /\ observed.payload.aspect # Rat(settings.targetWidth, settings.targetHeight)
    /\ observed.payload.scale # RInt(1)
    /\ Len(images) = 2
    /\ images[1].originalWidth # images[2].originalWidth

\* C18: in every state every entry's crop rectangle is at least 50 px wide
\* and 50 px high, its zoom being at most the maximum zoom for its image
\* size and its aspect.
C18_EveryCropAtLeast50Px ==
    \A i \in 1..Len(images) :
        LET img  == images[i]
            calc == calculateCrop(img.originalWidth, img.originalHeight, img.cropState)
        IN  /\ RLe(RInt(50), calc.cropWidth)
            /\ RLe(RInt(50), calc.cropHeight)
            /\ RLe(img.cropState.scale,
                   getMaxScale(img.originalWidth, img.originalHeight, img.cropState.aspect))

-----------------------------------------------------------------------------
(* The crop rectangle *)

\* C19: for positive image sizes, centers in [0, 1], zooms of at least 1 and
\* positive aspects, the rectangle calculateCrop returns, before any
\* rounding, lies inside the image: 0 <= x, x + width <= imageWidth,
\* 0 <= y, y + height <= imageHeight.
C19_UnroundedCropInsideImage ==
    crop.pc \in {"calculated", "rounded"} =>
        /\ RLe(RInt(0), crop.calc.cropX)
        /\ RLe(RAdd(crop.calc.cropX, crop.calc.cropWidth), RInt(crop.imageWidth))
        /\ RLe(RInt(0), crop.calc.cropY)
        /\ RLe(RAdd(crop.calc.cropY, crop.calc.cropHeight), RInt(crop.imageHeight))

\* calculateCrop has returned for a zoomed framing whose center is the
\* bottom right corner: the rectangle was pushed back to the two edges.
C19_ClampedAtBottomRight ==
    /\ crop.pc = "calculated"
    /\ crop.cropState.centerX = RInt(1)
    /\ crop.cropState.centerY = RInt(1)
    /\ crop.cropState.scale = Rat(6, 5)
    /\ RAdd(crop.calc.cropX, crop.calc.cropWidth) = RInt(crop.imageWidth)
    /\ RAdd(crop.calc.cropY, crop.calc.cropHeight) = RInt(crop.imageHeight)

\* C20: the rectangle getCropRect returns, each of x, y, width and height
\* rounded to the nearest integer with halves going up, lies inside the image.
C20_RoundedCropInsideImage ==
    crop.pc = "rounded" =>
        /\ crop.rect.x >= 0
        /\ crop.rect.y >= 0
        /\ crop.rect.x + crop.rect.width <= crop.imageWidth
        /\ crop.rect.y + crop.rect.height <= crop.imageHeight

\* C21: the crop derived with the zoom set to exactly what getMaxScale
\* returns, min(baseWidth / 50, baseHeight / 50, 10), has its smaller
\* dimension at least 50 px, for every positive image size and aspect.
C21_CropAtMaxZoomAtLeast50Px ==
    crop.pc = "maxZoom" =>
        RLe(RInt(50), RMin(crop.calc.cropWidth, crop.calc.cropHeight))

\* The maximum zoom was set by the 50 px floor, not by the 10x cap, on an
\* image larger than 50 px: the crop's smaller dimension is exactly 50 px.
C21_FloorDecidedMaxZoom ==
    /\ crop.pc = "maxZoom"
    /\ crop.imageWidth = 1200
    /\ crop.imageHeight = 400
    /\ RLt(RInt(1), crop.cropState.scale)
    /\ RLt(crop.cropState.scale, RInt(10))
    /\ RMin(crop.calc.cropWidth, crop.calc.cropHeight) = RInt(50)

\* C25: the base rectangle of calculateCrop is the largest rectangle of the
\* framing's aspect that fits in the image: baseWidth <= imageWidth,
\* baseHeight <= imageHeight, baseWidth = aspect * baseHeight, and
\* baseWidth = imageWidth or baseHeight = imageHeight. For 1200x800 with
\* aspect 1, zoom 1 and center (1/2, 1/2) the crop is x = 200, y = 0,
\* width = 800, height = 800.
C25_BaseIsLargestFittingRectangle ==
    crop.pc = "calculated" =>
        /\ RLe(crop.calc.baseWidth, RInt(crop.imageWidth))
        /\ RLe(crop.calc.baseHeight, RInt(crop.imageHeight))
        /\ crop.calc.baseWidth = RMul(crop.cropState.aspect, crop.calc.baseHeight)
        /\ \/ crop.calc.baseWidth = RInt(crop.imageWidth)
           \/ crop.calc.baseHeight = RInt(crop.imageHeight)
        /\ ( /\ crop.imageWidth = 1200
             /\ crop.imageHeight = 800
             /\ crop.cropState = [DEFAULT_CROP_STATE EXCEPT !.aspect = RInt(1)] )
           => /\ crop.calc.cropX = RInt(200)
              /\ crop.calc.cropY = RInt(0)
              /\ crop.calc.cropWidth = RInt(800)
              /\ crop.calc.cropHeight = RInt(800)

\* calculateCrop has returned for the 1200x800 image with aspect 1, zoom 1
\* and center (1/2, 1/2): the base is fitted to the height.
C25_SquareInLandscapeImage ==
    /\ crop.pc = "calculated"
    /\ crop.imageWidth = 1200
    /\ crop.imageHeight = 800
    /\ crop.cropState = [DEFAULT_CROP_STATE EXCEPT !.aspect = RInt(1)]
    /\ crop.calc.baseHeight = RInt(800)
    /\ crop.calc.baseWidth = RInt(800)

-----------------------------------------------------------------------------
(* The conversion of a detector rectangle and the clamp of a center *)

\* The zoom the detector rectangle asks for, before the clamp.
RequestedScale(call) ==
    LET base == BaseSize(call.imageWidth, call.imageHeight, call.targetAspect)
    IN  RMin(RDiv(base.w, RInt(call.smartCrop.width)),
             RDiv(base.h, RInt(call.smartCrop.height)))

\* C22: smartCropToCropState returns the rectangle's center divided by the
\* image width and height, the target aspect it was given, and the zoom
\* min(baseWidth / rectWidth, baseHeight / rectHeight) clamped into [1, 5].
C22_ConvertedCenterAspectAndZoom ==
    crop.pc \in {"converted", "derived"} =>
        /\ RMul(crop.cropState.centerX, RInt(crop.imageWidth))
              = RAdd(RInt(crop.smartCrop.x), Rat(crop.smartCrop.width, 2))
        /\ RMul(crop.cropState.centerY, RInt(crop.imageHeight))
              = RAdd(RInt(crop.smartCrop.y), Rat(crop.smartCrop.height, 2))
        /\ crop.cropState.aspect = crop.targetAspect
        /\ RLe(RInt(1), crop.cropState.scale)
        /\ RLe(crop.cropState.scale, RInt(5))
        /\ crop.cropState.scale =
              IF RLt(RequestedScale(crop), RInt(1)) THEN RInt(1)
              ELSE IF RLt(RInt(5), RequestedScale(crop)) THEN RInt(5)
              ELSE RequestedScale(crop)

\* A rectangle small enough to ask for more than 5x was converted.
C22_SmallRectangleCappedAtFive ==
    /\ crop.pc = "converted"
    /\ RLt(RInt(5), RequestedScale(crop))
    /\ crop.cropState.scale = RInt(5)
    /\ crop.cropState.centerX # Rat(1, 2)

\* The detector rectangle lies inside the image and is no larger than the
\* base rectangle in either dimension.
RectFitsBase(call) ==
    LET base == BaseSize(call.imageWidth, call.imageHeight, call.targetAspect)
    IN  /\ call.smartCrop.x + call.smartCrop.width <= call.imageWidth
        /\ call.smartCrop.y + call.smartCrop.height <= call.imageHeight
        /\ RLe(RInt(call.smartCrop.width), base.w)
        /\ RLe(RInt(call.smartCrop.height), base.h)

C24_ClampTwiceIsClampOnce ==
    crop.pc = "reclamped" => crop.twice = crop.once

\* The clamp was applied twice to a center outside [0, 1] with a crop wider
\* than the image, so that the lower limit lies above the upper one.
C24_ClampedWithCropWiderThanImage ==
    /\ crop.pc = "reclamped"
    /\ crop.centerX = Rat(3, 2)
    /\ RLt(RInt(crop.imageWidth), crop.cropWidth)
    /\ crop.once.centerX # crop.centerX
    /\ crop.once.centerY # crop.centerY

-----------------------------------------------------------------------------
(* The per-entry cases of the reducer and addImages *)

\* The step changes at most the given fields of the entry with identity id:
\* every other field and entry, the order, the settings and both pointers
\* are as before, and the entries are as before when none has identity id.
ChangesOnly(id, fields) ==
    /\ Len(images') = Len(images)
    /\ \A i \in 1..Len(images) :
          /\ DOMAIN images'[i] = DOMAIN images[i]
          /\ \A f \in DOMAIN images[i] :
                (images[i].id # id \/ f \notin fields) => images'[i][f] = images[i][f]
    /\ id \notin ImageIds(images) => images' = images
    /\ settings' = settings
    /\ selectedImageId' = selectedImageId
    /\ editingImageId' = editingImageId

\* C29: UPDATE_CROP_STATE, SET_IMAGE_SMART_CROP_PENDING, SET_IMAGE_SMART_CROP
\* and SET_IMAGE_PROCESSING give the named field of the entry with the
\* action's identity the action's value (SET_IMAGE_SMART_CROP also sets that
\* entry's isSmartCropPending to false) and change nothing else: not another
\* entry, not the order, not the settings, not a pointer; with an identity
\* no entry has they change nothing.
C29_PerEntryCasesChangeOneField ==
    [][ /\ \A id \in DispatchIds, cropState \in DispatchedFramings :
              DispatchUpdateCropState(id, cropState) =>
                  /\ ChangesOnly(id, {"cropState"})
                  /\ \A i \in 1..Len(images) :
                        images[i].id = id => images'[i].cropState = cropState
        /\ \A id \in DispatchIds, pending \in BOOLEAN :
              DispatchSetImageSmartCropPending(id, pending) =>
                  /\ ChangesOnly(id, {"isSmartCropPending"})
                  /\ \A i \in 1..Len(images) :
                        images[i].id = id => images'[i].isSmartCropPending = pending
        /\ \A id \in DispatchIds, result \in DispatchedResults :
              DispatchSetImageSmartCrop(id, result) =>
                  /\ ChangesOnly(id, {"smartCropResult", "isSmartCropPending"})
                  /\ \A i \in 1..Len(images) :
                        images[i].id = id =>
                            /\ images'[i].smartCropResult = result
                            /\ images'[i].isSmartCropPending = FALSE
        /\ \A id \in DispatchIds, isProcessing \in BOOLEAN :
              DispatchSetImageProcessing(id, isProcessing) =>
                  /\ ChangesOnly(id, {"isProcessing"})
                  /\ \A i \in 1..Len(images) :
                        images[i].id = id => images'[i].isProcessing = isProcessing
      ]_vars

\* Of two entries the first was given a framing, a result and the processing
\* flag while the second, still pending, and both pointers stayed as they were.
C29_FirstOfTwoEntriesRewritten ==
    /\ Len(images) = 2
    /\ images[1].isProcessing
    /\ ~images[2].isProcessing
    /\ images[1].cropState \in DispatchedFramings
    /\ images[2].cropState \notin DispatchedFramings
    /\ images[1].smartCropResult \in DispatchedResults
    /\ ~images[1].isSmartCropPending
    /\ images[2].isSmartCropPending
    /\ images[2].smartCropResult = NoResult
    /\ selectedImageId = 1
    /\ editingImageId = 2

\* The files of a list that decode, in the list's order.
Decoded(files) == SelectSeq(files, LAMBDA f : f.decodes)

\* C30: an addImages call appends one entry for each of its files that
\* decodes, in the order of the list, after the entries there are, which
\* keep their order and content; a file that does not decode is skipped and
\* the files after it are still added.
C30_AddAppendsDecodedInOrder ==
    [][AddImagesCommit =>
          /\ Len(images') = Len(images) + Len(Decoded(addCall.files))
          /\ SubSeq(images', 1, Len(images)) = images
          /\ \A k \in 1..Len(Decoded(addCall.files)) :
                LET img  == images'[Len(images) + k]
                    file == Decoded(addCall.files)[k]
                IN  /\ img.cropState.sourceHash = file.hash
                    /\ img.originalWidth = file.width
                    /\ img.originalHeight = file.height
                    /\ img.id \notin ImageIds(images)]_vars

\* The collection holds the 600x900 image, edited, and behind it the
\* 1200x800 image, as added.
C30_SecondImageBehindEditedFirst ==
    /\ Len(images) = 2
    /\ images[1].cropState.sourceHash = "h2"
    /\ images[1].cropState.scale # RInt(1)
    /\ images[2].cropState.sourceHash = "h1"
    /\ images[2].cropState.scale = RInt(1)
    /\ images[2].id = images[1].id + 1

-----------------------------------------------------------------------------
(* The files addImages takes *)

C32_NewEntryStartsDefaultOrPersisted ==
    [][AddImagesCommit =>
          \A k \in 1..Len(Decoded(addCall.files)) :
             LET img  == images'[Len(images) + k]
                 file == Decoded(addCall.files)[k]
             IN  IF file.hash \notin DOMAIN storedCrops
                 THEN img.cropState =
                         [centerX |-> Rat(1, 2), centerY |-> Rat(1, 2), scale |-> RInt(1),
                          aspect |-> Rat(settings.targetWidth, settings.targetHeight),
                          sourceHash |-> file.hash]
                 ELSE /\ img.cropState.centerX = storedCrops[file.hash].centerX
                      /\ img.cropState.centerY = storedCrops[file.hash].centerY
                      /\ img.cropState.scale = storedCrops[file.hash].scale
                      /\ img.cropState.sourceHash = file.hash
                      /\ ~img.isSmartCropPending]_vars

\* C33: in every state every entry's framing has the aspect of the global
\* target size.
C33_EveryAspectIsTheGlobalAspect ==
    \A i \in 1..Len(images) :
       images[i].cropState.aspect = Rat(settings.targetWidth, settings.targetHeight)

-----------------------------------------------------------------------------
(* The framing the user committed *)

\* C34: a framing the user committed for an entry through updateCropState
\* stays the entry's framing until another operation of the user changes
\* it: no analysis job scheduled or started before the edit replaces it.
C34_UserFramingOutlastsEarlierJobs ==
    \A id \in DOMAIN userFramings :
       id \in ImageIds(images) => ImageById(images, id).cropState = userFramings[id]

\* C36: the fingerprint in an entry's framing is the same in every state
\* from the one the entry is added in: no step changes the fingerprint of an
\* entry that stays in the collection.
C36_FingerprintNeverChanges ==
    [][\A i \in 1..Len(images) : \A j \in 1..Len(images') :
          images'[j].id = images[i].id =>
             images'[j].cropState.sourceHash = images[i].cropState.sourceHash]_vars

\* C37: a framing persisted for a fingerprint stays persisted for it until
\* clearImages: no other step deletes it, and a step rewrites it only with
\* the framing of an entry of that fingerprint.
C37_PersistedFramingKeptUntilClear ==
    [][\A hash \in DOMAIN storedCrops :
          \/ ClearImages
          \/ /\ hash \in DOMAIN storedCrops'
             /\ \/ storedCrops'[hash] = storedCrops[hash]
                \/ \E i \in 1..Len(images') :
                      /\ images'[i].cropState.sourceHash = hash
                      /\ images'[i].cropState = storedCrops'[hash]]_vars

-----------------------------------------------------------------------------
(* The cache and a detector call that fails *)

BatchKey(job) == getCacheKey(job.imageId, job.targetWidth, job.targetHeight)

\* The step starts the analyzeImage call of the job at position k.
BatchJobStarted(k) ==
    /\ batch'.pc = "running"
    /\ k \in 1..Len(batch'.jobs)
    /\ batch'.status[k] # "unstarted"
    /\ \/ batch.pc # "running"
       \/ batch.status[k] = "unstarted"

\* C39 as stated: after analyzeImage has returned null for a key the cache
\* has no entry for the key.
C39_NoEntryAfterNull ==
    [][\A k \in 1..Len(batch.jobs) :
          BatchJobResolve(k, [ok |-> FALSE, rect |-> NoResult]) =>
             BatchKey(batch.jobs[k]) \notin DOMAIN cropCache']_vars

\* C39, amended: an analyzeImage call that returns null leaves the cache as
\* it was, so the key has an entry afterwards only if it had one before;
\* and every analyzeImage call with a key that has no entry invokes the
\* detector.
C39_NullLeavesCacheAndMissInvokesDetector ==
    [][/\ \A k \in 1..Len(batch.jobs) :
             BatchJobResolve(k, [ok |-> FALSE, rect |-> NoResult]) =>
                cropCache' = cropCache
       /\ \A k \in 1..MaxBatchJobs :
             (BatchJobStarted(k) /\ BatchKey(batch'.jobs[k]) \notin DOMAIN cropCache') =>
                batch'.status[k] = "inflight"]_vars

\* The first job failed and left no entry; the second job, for the same
\* key, has the detector invoked again.
C39_DetectorInvokedAgainAfterFailure ==
    /\ batch.pc = "running"
    /\ Len(batch.jobs) >= 2
    /\ BatchKey(batch.jobs[1]) = BatchKey(batch.jobs[2])
    /\ batch.finished = <<<<1, "failed">>>>
    /\ batch.status[2] = "inflight"
    /\ BatchKey(batch.jobs[1]) \notin DOMAIN cropCache

-----------------------------------------------------------------------------
(* recomputeSmartCrop *)

RecomputeJobs(js) == {job \in js : job.origin = "recompute"}

\* The positions of a queue whose entry is in the collection and has no
\* cached result: the entries the loop has to call the detector for.
Turns(queue, cache, targetWidth, targetHeight) ==
    {p \in 1..Len(queue) :
        /\ queue[p] \in ImageIds(images)
        /\ getCacheKey(queue[p], targetWidth, targetHeight) \notin DOMAIN cache}

\* After a step of the loop over queue: the detector is called for the
\* first entry whose turn it is and the entries behind it wait; with no
\* such entry the call has ended.
LoopStoppedAtFirstTurn(queue, cache, targetWidth, targetHeight) ==
    LET turns == Turns(queue, cache, targetWidth, targetHeight)
    IN  IF turns = {}
        THEN /\ RecomputeJobs(jobs') = {}
             /\ recompute' = NoRecompute
        ELSE LET first == CHOOSE p \in turns : \A q \in turns : p <= q
             IN  /\ \E job \in jobs' :
                       /\ RecomputeJobs(jobs') = {job}
                       /\ job.id = queue[first]
                       /\ job.pc = "detect"
                /\ recompute'.active
                /\ recompute'.queue = SubSeq(queue, first + 1, Len(queue))

\* C40: recomputeSmartCrop changes nothing when auto-detection is disabled;
\* otherwise it empties the cache and calls the detector for the entries in
\* the order of the collection, the next one only when the call before has
\* ended: at most one detector call started by it is in flight, and an entry
\* that has been removed before its turn gets no detector call.
C40_RecomputeOneAtATimeInOrder ==
    /\ [](Cardinality(RecomputeJobs(jobs)) <= 1)
    /\ [][RecomputeSmartCrop =>
             IF ~settings.enableSmartCrop
             THEN UNCHANGED <<images, cropCache, storedCrops, jobs, recompute>>
             ELSE /\ cropCache' = EmptyCache
                  /\ LoopStoppedAtFirstTurn([i \in 1..Len(images) |-> images[i].id],
                                            EmptyCache, settings.targetWidth,
                                            settings.targetHeight)]_vars
    /\ [][\A job \in RecomputeJobs(jobs) :
             (\E outcome \in JobOutcomes(job) : JobResolve(job, outcome)) =>
                LoopStoppedAtFirstTurn(recompute.queue, cropCache',
                                       recompute.targetWidth,
                                       recompute.targetHeight)]_vars
    /\ [][\A job \in RecomputeJobs(jobs') \ jobs : job.id \in ImageIds(images)]_vars

\* A recomputeSmartCrop call awaits the detector for the first entry while
\* the second entry, whose turn is next, has been removed.
C40_SecondEntryRemovedBeforeItsTurn ==
    /\ recompute.active
    /\ recompute.queue = <<2>>
    /\ ImageIds(images) = {1}
    /\ \E job \in jobs : job.origin = "recompute" /\ job.id = 1 /\ job.pc = "detect"

-----------------------------------------------------------------------------
(* The target size *)

\* C38: after every sequence of setWidth, setHeight, setAspect and preset
\* selections with integers above zero, the lock on or off, the global
\* target width and height are both at least 1.
C38_TargetSizeAtLeastOne ==
    /\ settings.targetWidth >= 1
    /\ settings.targetHeight >= 1

-----------------------------------------------------------------------------
(* The cache and the collection *)

\* C35: in every state every key of the cache is a key of an identity that
\* is in the collection: after removeImage(id) or clearImages no state has
\* a cached result of a removed identity, also when a detector call for it
\* was in flight at the removal.
C35_CacheHoldsOnlyCurrentIdentities ==
    \A key \in DOMAIN cropCache :
       \E id \in ImageIds(images) : key \in KeysOf(id)

-----------------------------------------------------------------------------
(* The export *)

\* C26: in an export of two or more images, a rasterization failure for one
\* image does not abort the export: the export goes on and ends with an
\* archive that holds every other image.
C26_FailedImageDoesNotAbortExport ==
    (Len(exporting.images) >= 2 /\ exporting.failed # {}) =>
        \/ exporting.pc = "running"
        \/ /\ exporting.pc = "done"
           /\ Len(exporting.saved) = 1
           /\ exporting.saved[1].kind = "archive"
           /\ {exporting.saved[1].entries[k].id
                  : k \in 1..Len(exporting.saved[1].entries)}
                = {exporting.images[k]
                     : k \in (1..Len(exporting.images)) \ exporting.failed}

\* C27: handleExport on an empty collection ends with the "No images to
\* export" error; nothing is saved and no progress is reported.
C27_EmptyCollectionIsRefused ==
    [][\A naming \in ExportNamings :
          (HandleExport(naming) /\ Len(images) = 0) =>
              /\ exporting'.pc = "refused"
              /\ exporting'.toast = "No images to export"
              /\ exporting'.saved = <<>>
              /\ exporting'.zip = <<>>
              /\ exporting'.progress = <<>>]_vars

\* handleExport has refused an empty collection that held images before.
C27_RefusedAfterCollectionEmptied ==
    /\ exporting.pc = "refused"
    /\ images = <<>>
    /\ nextId > 0

\* The name the claim gives the image at position k (from 1) of an export.
ExpectedName(call, k) ==
    call.naming.prefix \o ToString(call.naming.startIndex + (k - 1))
        \o call.naming.suffix \o "."
        \o (IF call.naming.format = "jpeg" THEN "jpg" ELSE call.naming.format)

\* C28: a finished export of one image has saved one file named with index
\* 0; a finished export of two or more images has saved one archive in which
\* the image at position i is named prefix, startIndex + i, suffix, ".",
\* extension, so that names follow the collection order and differ pairwise.
C28_NamesFollowCollectionOrder ==
    exporting.pc = "done" =>
        /\ Len(exporting.saved) = 1
        /\ Len(exporting.images) = 1 =>
              /\ exporting.saved[1].kind = "file"
              /\ exporting.saved[1].id = exporting.images[1]
              /\ exporting.saved[1].name = ExpectedName(exporting, 1)
        /\ Len(exporting.images) >= 2 =>
              LET entries == exporting.saved[1].entries
              IN  /\ exporting.saved[1].kind = "archive"
                  /\ Len(entries) = Len(exporting.images)
                  /\ \A k \in 1..Len(entries) :
                        /\ entries[k].id = exporting.images[k]
                        /\ entries[k].name = ExpectedName(exporting, k)
                  /\ \A j, k \in 1..Len(entries) :
                        j # k => entries[j].name # entries[k].name

\* An archive of two images was saved under a prefix that ends and a suffix
\* that begins with a digit.
C28_ArchiveOfTwoSaved ==
    /\ exporting.pc = "done"
    /\ Len(exporting.images) = 2
    /\ exporting.naming # DEFAULT_NAMING
    /\ Len(exporting.saved) = 1
    /\ Len(exporting.saved[1].entries) = 2

-----------------------------------------------------------------------------
(* batchAnalyze: progress, failures and the return *)

\* batchAnalyze when every detector call ends at some time.
SpecBatchFair ==
    /\ SpecBatch
    /\ WF_vars(\E k \in 1..Len(batch.jobs) :
                  \E outcome \in BatchOutcomes(batch.jobs[k]) : BatchJobResolve(k, outcome))

\* How the jobs of an image identity ended, in the order they ended.
EndsOf(b, id) ==
    {b.finished[n][2] : n \in {m \in 1..Len(b.finished) : b.jobs[b.finished[m][1]].imageId = id}}

BatchIds(b) == {b.jobs[k].imageId : k \in 1..Len(b.jobs)}

\* C11: the progress callback is called once after each job that has ended,
\* with the counts 1, 2, ... in that order and the number of jobs as the
\* total; when batchAnalyze returns it has been called once per job, the
\* last time with (N, N).
C11_ProgressCountsEveryJobOnce ==
    batch.pc \in {"running", "returned"} =>
        /\ Len(batch.progress) = Len(batch.finished)
        /\ \A n \in 1..Len(batch.progress) : batch.progress[n] = <<n, Len(batch.jobs)>>
        /\ batch.pc = "returned" => Len(batch.progress) = Len(batch.jobs)

\* A batch of three jobs with ceiling two has returned after a failure, and
\* the second job ended before the first.
C11_ThreeJobsOutOfOrder ==
    /\ batch.pc = "returned"
    /\ Len(batch.jobs) = 3
    /\ batch.concurrency = 2
    /\ \E n \in 1..3 : batch.finished[n][2] = "failed"
    /\ batch.finished[1][1] = 2
    /\ batch.progress[3] = <<3, 3>>

\* C12: a detector failure does not end the batch: batchAnalyze never
\* rejects, every job has been run when it returns, and the returned map
\* holds null for an image whose detection failed and the detector's result
\* for an image whose detection succeeded.
C12_FailureIsOneNullResult ==
    /\ batch.pc # "rejected"
    /\ batch.pc = "returned" =>
          /\ {batch.finished[n][1] : n \in 1..Len(batch.finished)} = 1..Len(batch.jobs)
          /\ \A k \in 1..Len(batch.jobs) :
                LET job == batch.jobs[k]
                IN  /\ job.imageId \in DOMAIN batch.results
                    /\ EndsOf(batch, job.imageId) = {"failed"} =>
                          batch.results[job.imageId] = NoResult
                    /\ "failed" \notin EndsOf(batch, job.imageId) =>
                          batch.results[job.imageId] =
                             DetectorRect(job.width, job.height,
                                          job.targetWidth, job.targetHeight)

\* A batch has returned in which the first job failed and a job of another
\* image, admitted after it, got the detector's result.
C12_FailedThenSucceeded ==
    /\ batch.pc = "returned"
    /\ Len(batch.jobs) = 3
    /\ <<1, "failed">> \in {batch.finished[n] : n \in 1..Len(batch.finished)}
    /\ <<3, "ok">> \in {batch.finished[n] : n \in 1..Len(batch.finished)}
    /\ batch.jobs[3].imageId # batch.jobs[1].imageId
    /\ batch.results[batch.jobs[1].imageId] = NoResult
    /\ batch.results[batch.jobs[3].imageId] # NoResult

\* C13: batchAnalyze returns only when every job of the batch has ended, with
\* a result entry for every submitted image identity; and when every
\* detector call ends at some time, a running batchAnalyze returns.
C13_ReturnsAfterAllAndReturns ==
    /\ [](batch.pc = "returned" =>
            /\ \A k \in 1..Len(batch.jobs) : batch.status[k] = "done"
            /\ DOMAIN batch.results = BatchIds(batch))
    /\ (batch.pc = "running") ~> (batch.pc = "returned")

\* A batch of more jobs than its ceiling has returned: its last chunk was
\* admitted after the first had ended.
C13_ReturnedAfterSeveralChunks ==
    /\ batch.pc = "returned"
    /\ Len(batch.jobs) > batch.concurrency
    /\ batch.i >= Len(batch.jobs)
    /\ \A k \in 1..Len(batch.jobs) : batch.status[k] = "done"

=============================================================================
